---- MODULE Spec2Model ----
(***************************************************************************)
(* Nutrition normalization and aggregation engine of calorieWeb.           *)
(*                                                                         *)
(* Numbers are fixed point: every nutrient amount is an integer count of   *)
(* hundredths (9546 is 95.46), so that Math.round(v * 10) / 10 and         *)
(* Math.round(v) are exact integer operations.  A JavaScript value is a    *)
(* record [t, v]: t is "num", "nan", "undef", "null" or "str" (a string    *)
(* that is not a number), v is the number in hundredths (0 otherwise).     *)
(***************************************************************************)
EXTENDS Integers, Sequences, FiniteSets, TLC

\* ------------------------------------------------------------------------
\* Bounds
\* ------------------------------------------------------------------------
MaxObs == 2
MaxEntries == 2
TicksPerDay == 3

\* ------------------------------------------------------------------------
\* JavaScript values
\* ------------------------------------------------------------------------
Num(x) == [t |-> "num", v |-> x]
NaN == [t |-> "nan", v |-> 0]
Undef == [t |-> "undef", v |-> 0]
Null == [t |-> "null", v |-> 0]
Str == [t |-> "str", v |-> 0]

\* truthiness: undefined, null, NaN and 0 are falsy, a non-empty string is truthy
Truthy(x) == (x.t = "str") \/ (x.t = "num" /\ x.v # 0)

\* a || b
JsOr(a, b) == IF Truthy(a) THEN a ELSE b

\* x !== null && x !== undefined
Present(x) == x.t # "null" /\ x.t # "undef"

\* parseFloat(x): a number stays, anything that does not start a number is NaN
parseFloat(x) == IF x.t = "num" THEN x ELSE NaN

\* numeric coercion of x in x * 10: a non-numeric string and undefined give NaN, null gives 0
ToNumber(x) == IF x.t = "num" THEN x ELSE IF x.t = "null" THEN Num(0) ELSE NaN

\* Math.round(v * 10) / 10 on hundredths (half rounds up)
Round1(v) == ((v + 5) \div 10) * 10

\* Math.round(v) on hundredths (half rounds up)
Round0(v) == ((v + 50) \div 100) * 100

\* Math.max(a, b): NaN if either argument is NaN
MathMax(a, b) ==
  IF a.t = "nan" \/ b.t = "nan" THEN NaN
  ELSE IF a.v >= b.v THEN a ELSE b

\* a + b, a * k on JavaScript numbers
JsAdd(a, b) == IF a.t = "nan" \/ b.t = "nan" THEN NaN ELSE Num(a.v + b.v)
JsTimes(a, k) == IF a.t = "nan" THEN NaN ELSE Num(a.v * k)
JsRound1(a) == IF a.t = "nan" THEN NaN ELSE Num(Round1(a.v))
JsRound0(a) == IF a.t = "nan" THEN NaN ELSE Num(Round0(a.v))

\* ------------------------------------------------------------------------
\* Nutrient Extractor: extractNutrients of backend/ai.js ("ai") and of
\* backend/usda.js ("usda")
\* ------------------------------------------------------------------------
Impls == {"ai", "usda"}

Fields == {"calories", "protein", "fat", "carbs"}

\* nutrientMap of ai.js: both numbering schemes, sugars and fiber mapped to carbs
nutrientMapAI(id) ==
  CASE id \in {208, 1008} -> "calories"
    [] id \in {203, 1003} -> "protein"
    [] id \in {204, 1004} -> "fat"
    [] id \in {205, 1005} -> "carbs"
    [] id \in {269, 291} -> "carbs"
    [] OTHER -> "none"

\* nutrientMap of usda.js: no entry for 208, 269, 291
nutrientMapUSDA(id) ==
  CASE id = 1008 -> "calories"
    [] id \in {203, 1003} -> "protein"
    [] id \in {204, 1004} -> "fat"
    [] id \in {205, 1005} -> "carbs"
    [] OTHER -> "none"

ZeroProfile == [calories |-> Num(0), protein |-> Num(0), fat |-> Num(0), carbs |-> Num(0)]

\* An observation: the three places an identifier can sit (number,
\* nutrient.id, nutrientId; 0 is "absent") and the two value fields.
MkObs(number, nid, nutrientId, amount, value) ==
  [isNull |-> FALSE, number |-> number, nid |-> nid, nutrientId |-> nutrientId,
   amount |-> amount, value |-> value]

NullObs == [isNull |-> TRUE, number |-> 0, nid |-> 0, nutrientId |-> 0,
            amount |-> Undef, value |-> Undef]

\* first truthy identifier of a || b || c (0 stands for undefined)
FirstId(a, b, c) == IF a # 0 THEN a ELSE IF b # 0 THEN b ELSE c

\* one iteration of the for loop of ai.js
ProcessNutrientAI(n, nutrient) ==
  LET nutrientId == FirstId(nutrient.number, nutrient.nid, nutrient.nutrientId)
      field == nutrientMapAI(nutrientId)
      value == parseFloat(JsOr(JsOr(nutrient.amount, nutrient.value), Num(0)))
  IN  IF field # "none" /\ Present(nutrient.amount) /\ value.t = "num" /\ value.v > 0
      THEN IF field = "carbs" /\ nutrientId = 291
           THEN [n EXCEPT ![field] = JsAdd(n[field], JsRound1(value))]
           ELSE [n EXCEPT ![field] = MathMax(n[field], JsRound1(value))]
      ELSE n

\* one iteration of the for loop of usda.js
ProcessNutrientUSDA(n, nutrient) ==
  LET nutrientId == FirstId(nutrient.nid, nutrient.nutrientId, 0)
      field == nutrientMapUSDA(nutrientId)
      value == JsOr(JsOr(nutrient.amount, nutrient.value), Num(0))
  IN  IF field # "none" /\ Present(nutrient.value)
      THEN [n EXCEPT ![field] = MathMax(Num(0), JsRound1(ToNumber(value)))]
      ELSE n

ProcessNutrient(im, n, nutrient) ==
  IF im = "ai" THEN ProcessNutrientAI(n, nutrient) ELSE ProcessNutrientUSDA(n, nutrient)

\* an estimate that weighs fat like protein and carbs
EstimateCaloriesFlat(n) ==
  IF n.calories.t = "num" /\ n.calories.v = 0
     /\ (Truthy(n.protein) \/ Truthy(n.fat) \/ Truthy(n.carbs))
  THEN [n EXCEPT !.calories =
          JsRound0(JsAdd(JsAdd(JsTimes(n.protein, 4), JsTimes(n.fat, 4)), JsTimes(n.carbs, 4)))]
  ELSE n

\* calories estimated from the macros when no energy was found
EstimateCalories(n) ==
  IF n.calories.t = "num" /\ n.calories.v = 0
     /\ (Truthy(n.protein) \/ Truthy(n.fat) \/ Truthy(n.carbs))
  THEN [n EXCEPT !.calories =
          JsRound0(JsAdd(JsAdd(JsTimes(n.protein, 4), JsTimes(n.fat, 9)), JsTimes(n.carbs, 4)))]
  ELSE n

\* extractNutrients as a function of the whole record: the loop from
\* observation k on, then the calorie estimate.  "threw" is a TypeError.
RECURSIVE ExtractFrom(_, _, _, _)
ExtractFrom(im, n, items, k) ==
  IF k > Len(items) THEN [threw |-> FALSE, nutrients |-> EstimateCalories(n)]
  ELSE IF items[k].isNull THEN [threw |-> TRUE, nutrients |-> n]
  ELSE ExtractFrom(im, ProcessNutrient(im, n, items[k]), items, k + 1)

\* foodData: t is "null", "undefined" or "object"; fn says what
\* foodData.foodNutrients is ("undefined", "null", "other" for a truthy
\* non-array, "array"), items is the array
MkFood(t, fn, items) == [t |-> t, fn |-> fn, items |-> items]

extractNutrients(im, fd) ==
  IF fd.t # "object" THEN [threw |-> TRUE, nutrients |-> ZeroProfile]
  ELSE IF fd.fn # "array" THEN [threw |-> FALSE, nutrients |-> ZeroProfile]
  ELSE ExtractFrom(im, ZeroProfile, fd.items, 1)

\* ---- inputs of the extractor --------------------------------------------
\* <<identifier, value>> pairs the records are built from
AbstractObs ==
  ({208, 1008} \X {Num(9500), Num(9546)})
  \cup ({203, 1003} \X {Num(10), Num(1000), Num(2000)})
  \cup ({204, 1004} \X {Num(1000)})
  \cup ({205, 1005} \X {Num(500), Num(1046)})
  \cup ({291} \X {Num(300)})
  \cup ({269} \X {Num(700)})
  \cup ({999} \X {Num(1000)})
  \cup ({1003} \X {Str, Null, Num(0), Num(0 - 500)})

\* the three response layouts of the food database: abridged
\* ({number, amount}), detail ({nutrient: {id}, amount}) and search
\* ({nutrientId, value})
Shapes == {"abridged", "detail", "search"}

Shaped(sh, o) ==
  CASE sh = "abridged" -> MkObs(o[1], 0, 0, o[2], Undef)
    [] sh = "detail" -> MkObs(0, o[1], 0, o[2], Undef)
    [] OTHER -> MkObs(0, 0, o[1], Undef, o[2])

\* every observation a record can hold: the shaped pairs, a null element
\* and an element whose amount is 0 beside a value
ObsOf(sh) == {Shaped(sh, o) : o \in AbstractObs}
             \cup {NullObs, MkObs(0, 0, 1003, Num(0), Num(500))}

\* records without a list of observations: null, undefined, an object
\* whose foodNutrients is missing, null or not an array
NonListFoods ==
  {MkFood("null", "undefined", <<>>), MkFood("undefined", "undefined", <<>>),
   MkFood("object", "undefined", <<>>), MkFood("object", "null", <<>>),
   MkFood("object", "other", <<>>)}

\* ------------------------------------------------------------------------
\* Entry store (backend/index.js) and HistoricalTrends.jsx
\* ------------------------------------------------------------------------
\* Calendar dates are day numbers (the order of ISO date strings); a Date
\* object is a local day and the clock ticks elapsed since local midnight.
Today == 20

Users == {"u1", "u2"}

Ts(day, tod) == [day |-> day, tod |-> tod]

\* a <= b on Date objects (comparison of the time values)
TsLe(a, b) == a.day * TicksPerDay + a.tod <= b.day * TicksPerDay + b.tod

\* date.toISOString().slice(0, 10): the UTC calendar date, off is the
\* browser's offset from UTC in ticks (constant over the period)
formatDate(d, off) == d.day + ((d.tod - off) \div TicksPerDay)

\* d.setDate(n): the local day replaced, the time of day kept
setDate(d, n) == [d EXCEPT !.day = n]

\* <option> values of the Time Period select (the two shortest of 7, 14,
\* 30, 60, 90)
DateRangeOptions == {7, 14}

\* request bodies of POST /api/entries that pass its validation
BodyInputs ==
  {[calories |-> 50000, protein |-> 1050, fat |-> 500, carbs |-> 2000],
   [calories |-> 30000, protein |-> 0, fat |-> 0, carbs |-> 0]}

EntryDates == {Today - 7, Today - 1, Today}

\* the requests that create entries: the signed-in user's, and one of
\* another user
EntryInputs ==
  {[userId |-> "u1", date |-> d, body |-> b] : d \in EntryDates, b \in BodyInputs}
  \cup {[userId |-> "u2", date |-> Today,
          body |-> [calories |-> 50000, protein |-> 1050, fat |-> 500, carbs |-> 2000]]}

\* an aggregate that keeps the largest value of a group
RECURSIVE SumFieldLargest(_, _, _)
SumFieldLargest(rows, K, fld) ==
  IF K = {} THEN 0
  ELSE LET k == CHOOSE x \in K : TRUE
           rest == SumFieldLargest(rows, K \ {k}, fld)
       IN  IF rows[k][fld] >= rest THEN rows[k][fld] ELSE rest

RECURSIVE SumField(_, _, _)
SumField(rows, K, fld) ==
  IF K = {} THEN 0
  ELSE LET k == CHOOSE x \in K : TRUE
       IN  rows[k][fld] + SumField(rows, K \ {k}, fld)

\* the dates of a set, earliest first
RECURSIVE AscSeq(_)
AscSeq(S) ==
  IF S = {} THEN <<>>
  ELSE LET m == CHOOSE x \in S : \A y \in S : x <= y
       IN  <<m>> \o AscSeq(S \ {m})

RECURSIVE DescSeq(_)
DescSeq(S) ==
  IF S = {} THEN <<>>
  ELSE LET m == CHOOSE x \in S : \A y \in S : y <= x
       IN  <<m>> \o DescSeq(S \ {m})

\* a summary that groups the rows of every user
getSummaryAnyOwner(rows, u, s, e) ==
  LET Mine(d) == {k \in 1..Len(rows) : rows[k].date = d}
      dates == {rows[k].date : k \in {x \in 1..Len(rows) :
                   s <= rows[x].date /\ rows[x].date <= e}}
      order == DescSeq(dates)
  IN  [k \in 1..Len(order) |->
        [date |-> order[k],
         totalCalories |-> SumField(rows, Mine(order[k]), "calories"),
         totalProtein |-> SumField(rows, Mine(order[k]), "protein"),
         totalFat |-> SumField(rows, Mine(order[k]), "fat"),
         totalCarbs |-> SumField(rows, Mine(order[k]), "carbs"),
         entryCount |-> Cardinality(Mine(order[k]))]]

\* GET /api/summary: the rows of one user in [s, e], grouped by date,
\* most recent date first
getSummary(rows, u, s, e) ==
  LET Mine(d) == {k \in 1..Len(rows) : rows[k].userId = u /\ rows[k].date = d}
      dates == {rows[k].date : k \in {x \in 1..Len(rows) :
                   rows[x].userId = u /\ s <= rows[x].date /\ rows[x].date <= e}}
      order == DescSeq(dates)
  IN  [k \in 1..Len(order) |->
        [date |-> order[k],
         totalCalories |-> SumField(rows, Mine(order[k]), "calories"),
         totalProtein |-> SumField(rows, Mine(order[k]), "protein"),
         totalFat |-> SumField(rows, Mine(order[k]), "fat"),
         totalCarbs |-> SumField(rows, Mine(order[k]), "carbs"),
         entryCount |-> Cardinality(Mine(order[k]))]]

\* ---- the Firestore revision (unnamed/part_002) ---------------------------
\* getEntriesByDateRange: the indices of the owner's rows in [s, e], by date
\* descending, then by createdAt descending (a later row was created later)
RECURSIVE OrderDesc(_, _)
OrderDesc(rows, K) ==
  IF K = {} THEN <<>>
  ELSE LET m == CHOOSE x \in K : \A y \in K :
                  \/ rows[y].date < rows[x].date
                  \/ (rows[y].date = rows[x].date /\ y <= x)
       IN  <<m>> \o OrderDesc(rows, K \ {m})

getEntriesByDateRange(rows, u, s, e) ==
  LET order == OrderDesc(rows, {k \in 1..Len(rows) :
                   rows[k].userId = u /\ rows[k].date >= s /\ rows[k].date <= e})
  IN  [k \in 1..Len(order) |-> rows[order[k]]]

\* the for loop of getSummaryByDateRange: summary holds the groups in the
\* order their dates were first seen
RECURSIVE GroupEntries(_, _, _)
GroupEntries(es, k, summary) ==
  IF k > Len(es) THEN summary
  ELSE LET entry == es[k]
           P == {x \in 1..Len(summary) : summary[x].date = entry.date}
           with == IF P = {}
                   THEN Append(summary, [date |-> entry.date, totalCalories |-> 0,
                                         totalProtein |-> 0, totalFat |-> 0,
                                         totalCarbs |-> 0, entryCount |-> 0])
                   ELSE summary
           x == CHOOSE y \in 1..Len(with) : with[y].date = entry.date
       IN  GroupEntries(es, k + 1,
             [with EXCEPT ![x] = [date |-> entry.date,
                                  totalCalories |-> @.totalCalories + entry.calories,
                                  totalProtein |-> @.totalProtein + entry.protein,
                                  totalFat |-> @.totalFat + entry.fat,
                                  totalCarbs |-> @.totalCarbs + entry.carbs,
                                  entryCount |-> @.entryCount + 1]])

\* Object.values(summary).sort((a, b) => b.date.localeCompare(a.date))
getSummaryByDateRange(rows, u, s, e) ==
  LET summary == GroupEntries(getEntriesByDateRange(rows, u, s, e), 1, <<>>)
      order == DescSeq({summary[x].date : x \in 1..Len(summary)})
  IN  [k \in 1..Len(order) |->
        summary[CHOOSE x \in 1..Len(summary) : summary[x].date = order[k]]]

\* the two revisions of GET /api/summary
Backends == {"sqlite", "firestore"}

summaryOf(b, rows, u, s, e) ==
  IF b = "sqlite" THEN getSummary(rows, u, s, e) ELSE getSummaryByDateRange(rows, u, s, e)

\* the <<startDate, endDate>> query parameters of the modelled requests
SummaryRanges == {<<Today - 6, Today>>, <<Today - 7, Today - 1>>, <<Today - 1, Today - 1>>}

\* GET /api/ai/aisuggestions: the totals handed to pollSuggestions for the
\* period [now - 7 days, now] of the server's clock
RECURSIVE SumDays(_, _, _)
SumDays(summary, k, fld) ==
  IF k > Len(summary) THEN 0 ELSE summary[k][fld] + SumDays(summary, k + 1, fld)

aiSuggestionTotals(rows, u, now) ==
  LET nutritionSummary == getSummary(rows, u, now - 7, now)
  IN  [totalCalories |-> SumDays(nutritionSummary, 1, "totalCalories"),
       totalProtein |-> SumDays(nutritionSummary, 1, "totalProtein"),
       totalFat |-> SumDays(nutritionSummary, 1, "totalFat"),
       totalCarbs |-> SumDays(nutritionSummary, 1, "totalCarbs"),
       totalEntries |-> SumDays(nutritionSummary, 1, "entryCount"),
       days |-> Len(nutritionSummary),
       startDate |-> now - 7,
       endDate |-> now]

NoTotals == [totalCalories |-> 0, totalProtein |-> 0, totalFat |-> 0, totalCarbs |-> 0,
             totalEntries |-> 0, days |-> 0, startDate |-> 0, endDate |-> 0]

NoEntryRequest == [op |-> "none", uid |-> "u1", id |-> 0, status |-> 0]

\* the ownership test of PUT and DELETE /api/entries/:id with any owner
\* accepted: !entry alone
entryExists(rows, u, id) == \E k \in 1..Len(rows) : rows[k].id = id

\* SELECT userId FROM entries WHERE id = ?, then
\* !(!entry || entry.userId !== req.user.uid)
ownsEntry(rows, u, id) == \E k \in 1..Len(rows) : rows[k].id = id /\ rows[k].userId = u

\* bodies of PUT /api/entries/:id (name present): all fields, no macros,
\* no calories, and only some of the macros
UpdateBodies ==
  {[calories |-> Num(40000), protein |-> Num(100), fat |-> Num(200), carbs |-> Num(300), date |-> Today - 1],
   [calories |-> Num(40000), protein |-> Undef, fat |-> Undef, carbs |-> Undef, date |-> Today],
   [calories |-> Undef, protein |-> Undef, fat |-> Undef, carbs |-> Undef, date |-> Today],
   [calories |-> Num(40000), protein |-> Num(100), fat |-> Null, carbs |-> Undef, date |-> Today]}

\* the status PUT /api/entries/:id answers an owner with
updateStatus(body) ==
  LET given == {f \in {"protein", "fat", "carbs"} : body[f].t \notin {"null", "undef"}}
  IN  IF body.calories.t \in {"null", "undef"} THEN 400
      ELSE IF given # {} /\ given # {"protein", "fat", "carbs"} THEN 400
      ELSE 200

\* the row after the UPDATE, with or without nutrition data
updatedRow(row, body) ==
  IF body.protein.t = "num"
  THEN [row EXCEPT !.calories = body.calories.v, !.protein = body.protein.v,
                   !.fat = body.fat.v, !.carbs = body.carbs.v, !.date = body.date]
  ELSE [row EXCEPT !.calories = body.calories.v, !.date = body.date]

\* the rows without those of the given id
RECURSIVE deleteRow(_, _)
deleteRow(rows, id) ==
  IF rows = <<>> THEN <<>>
  ELSE IF rows[1].id = id THEN deleteRow(Tail(rows), id)
  ELSE <<rows[1]>> \o deleteRow(Tail(rows), id)

\* ids a request may name: those handed out so far and one never used
EntryIds == 1..(MaxEntries + 1)

NoRequest == [backend |-> "sqlite", uid |-> "u1", startDate |-> 0, endDate |-> 0]

ZeroDay(d) == [date |-> d, totalCalories |-> 0, totalProtein |-> 0, totalFat |-> 0,
               totalCarbs |-> 0, entryCount |-> 0]

\* dateMap.get(dateStr) after data.forEach(item => dateMap.set(item.date, ...)):
\* a later item of the same date replaces an earlier one
DateMapGet(data, d) ==
  LET K == {k \in 1..Len(data) : data[k].date = d}
  IN  IF K = {} THEN ZeroDay(d)
      ELSE data[CHOOSE k \in K : \A x \in K : x <= k]

\* for (let d = new Date(startDate); d <= endDate; d.setDate(d.getDate() + 1))
RECURSIVE FillDates(_, _, _, _)
FillDates(d, e, data, off) ==
  IF ~TsLe(d, e) THEN <<>>
  ELSE <<DateMapGet(data, formatDate(d, off))>> \o FillDates(setDate(d, d.day + 1), e, data, off)

\* ------------------------------------------------------------------------
\* Quantity Scaler: EntryForm.jsx (getAdjustedNutrition) and adjustNutrients
\* ------------------------------------------------------------------------
\* A quantity is the text of the input, a sequence of characters.
Empty == [t |-> "empty", v |-> 0]

toLowerCase(s) ==
  [k \in 1..Len(s) |-> IF s[k] = "G" THEN "g" ELSE IF s[k] = "K" THEN "k" ELSE s[k]]

IsDigit(c) == c \in {"0", "1", "2", "3", "4", "5", "6", "7", "8", "9"}

\* \s and \w on the characters the inputs use
IsSpace(c) == c = " "
IsWordChar(c) == ~IsSpace(c) /\ c # "."

DigitVal(c) ==
  CASE c = "0" -> 0 [] c = "1" -> 1 [] c = "2" -> 2 [] c = "3" -> 3 [] c = "4" -> 4
    [] c = "5" -> 5 [] c = "6" -> 6 [] c = "7" -> 7 [] c = "8" -> 8 [] OTHER -> 9

\* the value of the digits s[a..b] read as one integer
RECURSIVE DigitsVal(_, _, _)
DigitsVal(s, a, b) == IF b < a THEN 0 ELSE DigitsVal(s, a, b - 1) * 10 + DigitVal(s[b])

RECURSIVE Pow10(_)
Pow10(n) == IF n = 0 THEN 1 ELSE 10 * Pow10(n - 1)

\* end of the longest run of digits (of spaces) that starts at p; p - 1 if none
DigitRunEnd(s, p) ==
  CHOOSE q \in (p - 1)..Len(s) :
    (\A k \in p..q : IsDigit(s[k])) /\ (q = Len(s) \/ ~IsDigit(s[q + 1]))

SpaceRunEnd(s, p) ==
  CHOOSE q \in (p - 1)..Len(s) :
    (\A k \in p..q : IsSpace(s[k])) /\ (q = Len(s) \/ ~IsSpace(s[q + 1]))

\* the pattern without its closing word boundary, /(\d+\.?\d*)\s*(g|kg|mg)/
MatchAtNoBoundary(s, p) ==
  LET a == DigitRunEnd(s, p)
      b == IF a < Len(s) /\ s[a + 1] = "." THEN a + 1 ELSE a
      c == DigitRunEnd(s, b + 1)
      u == SpaceRunEnd(s, c + 1) + 1
      unitLen == IF u <= Len(s) /\ s[u] = "g" THEN 1
                 ELSE IF u + 1 <= Len(s) /\ s[u] \in {"k", "m"} /\ s[u + 1] = "g" THEN 2
                 ELSE 0
  IN  [found |-> a >= p /\ unitLen > 0,
       num |-> DigitsVal(s, p, a) * Pow10(c - b) + DigitsVal(s, b + 1, c),
       den |-> Pow10(c - b),
       unit |-> IF unitLen = 1 THEN "g" ELSE IF u <= Len(s) /\ s[u] = "k" THEN "kg" ELSE "mg"]

\* /(\d+\.?\d*)\s*(g|kg|mg)\b/ tried at position p: every quantifier is
\* greedy and giving characters back never lets the rest match
MatchAt(s, p) ==
  LET a == DigitRunEnd(s, p)
      b == IF a < Len(s) /\ s[a + 1] = "." THEN a + 1 ELSE a
      c == DigitRunEnd(s, b + 1)
      u == SpaceRunEnd(s, c + 1) + 1
      unitLen == IF u <= Len(s) /\ s[u] = "g" THEN 1
                 ELSE IF u + 1 <= Len(s) /\ s[u] \in {"k", "m"} /\ s[u + 1] = "g" THEN 2
                 ELSE 0
      e == u + unitLen - 1
  IN  [found |-> a >= p /\ unitLen > 0 /\ (e = Len(s) \/ ~IsWordChar(s[e + 1])),
       \* parseFloat(weightMatch[1]) as the fraction num / den
       num |-> DigitsVal(s, p, a) * Pow10(c - b) + DigitsVal(s, b + 1, c),
       den |-> Pow10(c - b),
       unit |-> IF unitLen = 1 THEN "g" ELSE IF u <= Len(s) /\ s[u] = "k" THEN "kg" ELSE "mg"]

NoMatch == [found |-> FALSE, num |-> 0, den |-> 1, unit |-> "g"]

\* inputQuantity.toString().toLowerCase().match(...): the leftmost match
weightMatch(q) ==
  LET s == toLowerCase(q)
      P == {p \in 1..Len(s) : MatchAt(s, p).found}
  IN  IF P = {} THEN NoMatch ELSE MatchAt(s, CHOOSE p \in P : \A x \in P : p <= x)

\* the switch on the unit: the weight in grams as the fraction num / den
gramsQuantity(m) ==
  CASE m.unit = "kg" -> [num |-> m.num * 1000, den |-> m.den]
    [] m.unit = "mg" -> [num |-> m.num, den |-> m.den * 1000]
    [] OTHER -> [num |-> m.num, den |-> m.den]

\* Math.round(n / d) for d > 0
RoundDiv(n, d) == (2 * n + d) \div (2 * d)

\* Math.round(x * (grams / 100) * 10) / 10 and Math.round(x * (grams / 100))
\* on hundredths
ScaleRound1(x, g) == RoundDiv(x * g.num, 1000 * g.den) * 10
ScaleRound0(x, g) == RoundDiv(x * g.num, 10000 * g.den) * 100

NoFood == [type |-> "none", name |-> "", baseNutrition |-> [calories |-> 0, protein |-> 0, fat |-> 0, carbs |-> 0]]

\* getAdjustedNutrition, sf is the selectedFood of the render it closes over
getAdjustedNutrition(sf, baseNutrition, inputQuantity) ==
  LET m == weightMatch(inputQuantity)
      g == gramsQuantity(m)
  IN  IF sf.type # "usda" THEN baseNutrition
      ELSE IF ~m.found THEN baseNutrition
      ELSE [calories |-> ScaleRound1(baseNutrition.calories, g),
            protein |-> ScaleRound1(baseNutrition.protein, g),
            fat |-> ScaleRound1(baseNutrition.fat, g),
            carbs |-> ScaleRound1(baseNutrition.carbs, g)]

\* adjustNutrients of backend/usda.js for a weight of g grams
adjustNutrients(nutrient, g) ==
  [calories |-> ScaleRound0(nutrient.calories, g),
   protein |-> ScaleRound1(nutrient.protein, g),
   fat |-> ScaleRound1(nutrient.fat, g),
   carbs |-> ScaleRound1(nutrient.carbs, g)]

\* the quantity onChange scaling the values on screen instead of the base
QuantityChangeShownChained(sf, newQuantity, shown) ==
  IF sf.type = "usda" /\ Len(newQuantity) > 0 /\ weightMatch(newQuantity).found
  THEN getAdjustedNutrition(sf, shown, newQuantity)
  ELSE shown

\* what the quantity onChange leaves in the four nutrition fields
QuantityChangeShown(sf, newQuantity, shown) ==
  IF sf.type = "usda" /\ Len(newQuantity) > 0 /\ weightMatch(newQuantity).found
  THEN getAdjustedNutrition(sf, sf.baseNutrition, newQuantity)
  ELSE shown

\* what handleUSDASelect puts in the four nutrition fields
USDASelectShown(sf, baseData, qty) ==
  IF Len(qty) > 0 THEN getAdjustedNutrition(sf, baseData, qty) ELSE baseData

\* ---- inputs of the form ----------------------------------------------------
\* USDA search results (per 100 g); a field the result lacks is undefined
UsdaFoods ==
  {[name |-> "bread", calories |-> Num(9500), protein |-> Num(50), fat |-> Num(30), carbs |-> Num(2500)],
   [name |-> "oil", calories |-> Num(88400), protein |-> Undef, fat |-> Num(10000), carbs |-> Num(0)]}

\* suggestions from the user's food history
LocalFoods ==
  {[name |-> "toast", calories |-> Num(8000), protein |-> Num(300), fat |-> Num(100), carbs |-> Num(1500)]}

NameInputs == {"", "bread", "oil", "toast", "soup"}

QuantityInputs ==
  {<<>>,
   <<"2", "0", "0", "g">>,
   <<"5", "0", "g">>,
   <<"1", "5", "0", " ", "g">>,
   <<"0", ".", "5", "k", "g">>,
   <<"5", "0", "0", "g">>,
   <<"2", "5", "0", "m", "g">>,
   <<"1", "0", "0", "G">>,
   <<"2", " ", "c", "u", "p", "s">>,
   <<"1", " ", "s", "l", "i", "c", "e">>,
   <<"5", " ", "g", "r", "a", "m", "s">>,
   <<"2", "0", "0">>}

\* a typed value of one nutrition field
FieldInputs == {Num(10000)}

\* ------------------------------------------------------------------------
\* The calorie goal (backend/index.js, App.jsx) and the daily Analysis
\* ------------------------------------------------------------------------
MaxDayEntries == 2

\* ------------------------------------------------------------------------
\* getUSDAFoodById and its foodCache (backend/usda.js, backend/ai.js)
\* ------------------------------------------------------------------------
FdcIds == {1, 2, 3}

\* the object built from the extracted nutrients; t tells an object from
\* null and from undefined (a property that is not there)
MkResult(id, n) ==
  [t |-> "object", fdcId |-> id, calories |-> n.calories.v, protein |-> n.protein.v,
   fat |-> n.fat.v, carbs |-> n.carbs.v]

NullResult == [t |-> "null", fdcId |-> 0, calories |-> 0, protein |-> 0, fat |-> 0, carbs |-> 0]

AbsentResult == [t |-> "undefined", fdcId |-> 0, calories |-> 0, protein |-> 0, fat |-> 0, carbs |-> 0]

\* { error, nutrients }: own holds the properties the object has beside
\* these two (none)
Envelope(error, res) == [error |-> error, nutrients |-> res, own |-> AbsentResult]

\* the cached object returned as it is: its properties are those of the
\* result, error and nutrients are not among them
CachedValue(res) == [error |-> "undefined", nutrients |-> AbsentResult, own |-> res]

NoResponse == [error |-> "none", nutrients |-> AbsentResult, own |-> AbsentResult]

\* bodies the food database answers a detail request with: two foods as
\* the module's request formats them, a food without energy, and null
UpstreamBodies(im) ==
  LET sh == IF im = "ai" THEN "abridged" ELSE "detail"
      kcal == IF im = "ai" THEN 208 ELSE 1008
  IN  {MkFood("object", "array", <<Shaped(sh, <<kcal, Num(9500)>>), Shaped(sh, <<203, Num(1000)>>)>>),
       MkFood("object", "array", <<Shaped(sh, <<kcal, Num(9546)>>), Shaped(sh, <<205, Num(500)>>)>>),
       MkFood("object", "array", <<Shaped(sh, <<203, Num(0)>>)>>),
       MkFood("null", "undefined", <<>>)}

\* how a fetch ends: the request throws, the status is 404 or another
\* error, or a body arrives
FetchOutcomes == {"throws", "404", "500", "ok"}

\* the part of getUSDAFoodById after the cache check, for a body that
\* arrived: the response and whether the result is cached
lookupFetched(im, id, body) ==
  LET ex == extractNutrients(im, body)
  IN  IF ex.threw
      THEN [response |-> Envelope("Failed to fetch food data", NullResult), cache |-> FALSE]
      ELSE IF ex.nutrients.calories.t = "num" /\ ex.nutrients.calories.v = 0
      THEN [response |-> Envelope("No nutrient data available for this food", NullResult),
            cache |-> FALSE]
      ELSE [response |-> Envelope("null", MkResult(id, ex.nutrients)), cache |-> TRUE]

\* tryAlternateUSDAApproach of ai.js: nothing is cached
tryAlternateUSDAApproach(id, outcome, body) ==
  LET ex == extractNutrients("ai", body)
  IN  IF outcome = "ok" /\ ~ex.threw /\ ex.nutrients.calories.t = "num"
           /\ ex.nutrients.calories.v > 0
      THEN Envelope("null", MkResult(id, ex.nutrients))
      ELSE Envelope("Food data not available - please enter nutrition manually", NullResult)

\* foodCache.get(cacheKey) returned from getUSDAFoodById
cacheHit(res) == CachedValue(res)

\* ------------------------------------------------------------------------
\* The food history fed by POST /api/entries
\* ------------------------------------------------------------------------
\* concurrent requests of one user
MaxRequests == 3

Requests == 1..MaxRequests

FoodNames == {"apple", "pear"}

IdleRequest == [pc |-> "idle", name |-> "", doc |-> 0]

\* snapshot.docs[0] of the query where('name', '==', foodName): the index
\* of the first record of that name, 0 if the snapshot is empty
findFood(fs, n) ==
  IF \E k \in 1..Len(fs) : fs[k].name = n
  THEN CHOOSE k \in 1..Len(fs) : fs[k].name = n /\ \A j \in 1..(k - 1) : fs[j].name # n
  ELSE 0

\* .update({ usageCount: FieldValue.increment(1) }) of the record doc, or
\* addFood with usageCount 1 when the query found none
writeFood(fs, n, doc) ==
  IF doc > 0 THEN [fs EXCEPT ![doc].usageCount = @ + 1]
  ELSE Append(fs, [name |-> n, usageCount |-> 1])

\* INSERT INTO foods ... ON CONFLICT(userId, name) DO UPDATE SET
\* usageCount = usageCount + 1
insertOrIncrement(fs, n) == writeFood(fs, n, findFood(fs, n))

\* ------------------------------------------------------------------------
\* The user document (Firestore db module) behind verifyIdToken
\* ------------------------------------------------------------------------
NoDoc == [exists |-> FALSE, calorieGoal |-> 0, displayName |-> ""]

IdleAuth == [pc |-> "idle", kind |-> "get", exists |-> FALSE, name |-> ""]

\* display names a token carries
TokenNames == {"ann", "anna"}

\* the goal a PUT /api/goal/updatecalories of the model asks for
NewGoal == 180000

\* createUser: set() replaces the document
createUser(displayName) == [exists |-> TRUE, calorieGoal |-> 200000, displayName |-> displayName]

\* the write of ensureUserExists after its read: createUser if the read
\* found no document, else update() of the profile fields
ensureWrite(doc, sawExists, displayName) ==
  IF ~sawExists THEN createUser(displayName)
  ELSE [doc EXCEPT !.displayName = displayName]

\* ------------------------------------------------------------------------
\* The render of HistoricalTrends
\* ------------------------------------------------------------------------
\* calorieGoal props: the default goal and a lower one
TrendGoals == {200000, 130000}

\* backgroundColor of a calories bar
barColor(totalCalories, goal) ==
  IF totalCalories > goal THEN "#dc3545"
  ELSE IF 4 * totalCalories > goal * 3 THEN "#28a745"
  ELSE IF totalCalories > 0 THEN "#ffc107"
  ELSE "#e9ecef"

\* the bars renderChart maps summaryData to, left to right
renderChart(data, type, goal) ==
  [k \in 1..Len(data) |->
     [date |-> data[k].date, totalCalories |-> data[k].totalCalories,
      color |-> IF type = "calories" THEN barColor(data[k].totalCalories, goal)
                ELSE "stacked"]]

\* summaryData after summaryData.reverse(), which reverses the array of
\* the state in place
reverseInPlace(data) == [k \in 1..Len(data) |-> data[Len(data) + 1 - k]]

\* the rows of the table, top to bottom: summaryData.reverse().map(...)
renderTable(data) ==
  [k \in 1..Len(data) |-> [date |-> data[Len(data) + 1 - k].date]]

\* ------------------------------------------------------------------------
\* The model loader of services/foodRecognition.js
\* ------------------------------------------------------------------------
\* loads that may be started, concurrent callers, calls of clearModelCache
MaxLoads == 2

MaxCallers == 2

MaxClears == 1

Callers == 1..MaxCallers

IdleCaller == [pc |-> "idle", promise |-> 0, value |-> 0]

\* a loadModel that never joins a load in flight
joinsLoadNever(loading, promise) == FALSE

\* if (isLoading && loadPromise) return loadPromise
joinsLoad(loading, promise) == loading /\ promise # 0

\* the callers awaiting the promise p, settled
settle(cs, p, pc, value) ==
  [c \in Callers |->
     IF cs[c].pc = "waiting" /\ cs[c].promise = p
     THEN [pc |-> pc, promise |-> p, value |-> value]
     ELSE cs[c]]

\* ------------------------------------------------------------------------
\* DateSelector: instants are hours since midnight UTC of day 0, a time zone
\* is its standard and daylight offsets and the instants between which
\* daylight time is in effect
\* ------------------------------------------------------------------------
HoursPerDay == 24

Far == 1000 * HoursPerDay

UTC == [std |-> 0, dst |-> 0, from |-> 0, to |-> 0]

\* how far back Previous is followed
MaxBack == 8

\* zones without daylight time, and zones whose clocks go forward or back
\* on a day of the days shown (at 01:00 UTC in Europe, at 02:00 local time
\* in North America)
Zones ==
  {UTC,
   [std |-> 9, dst |-> 9, from |-> 0, to |-> 0],
   [std |-> 0 - 5, dst |-> 0 - 5, from |-> 0, to |-> 0],
   [std |-> 1, dst |-> 2, from |-> (Today - 3) * HoursPerDay + 1, to |-> Far],
   [std |-> 1, dst |-> 2, from |-> 0, to |-> (Today - 5) * HoursPerDay + 1],
   [std |-> 0 - 5, dst |-> 0 - 4, from |-> (Today - 2) * HoursPerDay + 7, to |-> Far],
   [std |-> 0 - 5, dst |-> 0 - 4, from |-> 0, to |-> (Today - 6) * HoursPerDay + 6]}

offsetAt(z, u) == IF z.from <= u /\ u < z.to THEN z.dst ELSE z.std

\* the instant of a local wall-clock time: the earlier one if the time
\* occurs twice, the time read with the standard offset if it is skipped
localToUtc(z, wall) ==
  LET C == {u \in {wall - z.std, wall - z.dst} : u + offsetAt(z, u) = wall}
  IN  IF C = {} THEN wall - z.std
      ELSE CHOOSE u \in C : \A v \in C : u <= v

\* new Date(dateStr): midnight UTC of the day
parseDate(d) == d * HoursPerDay

\* date.toISOString().slice(0, 10)
isoDate(u) == u \div HoursPerDay

\* date.setDate(date.getDate() + n) in the zone z: the local day changes,
\* the local time of day stays
addLocalDays(z, u, n) == localToUtc(z, u + offsetAt(z, u) + n * HoursPerDay)

\* what handlePreviousDay passes to onDateChange
previousDay(z, sel) == isoDate(addLocalDays(z, parseDate(sel), 0 - 1))

\* nextDate of handleNextDay
nextDay(z, sel) == isoDate(addLocalDays(z, parseDate(sel), 1))

\* x ?? y
Nullish(x, y) == IF x.t \in {"null", "undef"} THEN y ELSE x

\* GET /api/goal/calories: row is the calorieGoal of the user's row in users
\* (Undef when the user has no row); the row object, or the number 1500
getGoalCalories(row) ==
  IF row = Undef THEN [isObject |-> FALSE, calorieGoal |-> Undef, number |-> Num(150000)]
  ELSE [isObject |-> TRUE, calorieGoal |-> row, number |-> Undef]

\* PUT /api/goal/updatecalories: the status and the row afterwards
updateCalories(row, newCalorieGoal) ==
  LET goalNumber == ToNumber(newCalorieGoal)
  IN  IF newCalorieGoal.t \in {"undef", "null"} THEN [status |-> 400, row |-> row]
      ELSE IF goalNumber.t = "nan" \/ goalNumber.v < 0 THEN [status |-> 400, row |-> row]
      ELSE [status |-> 200, row |-> IF row = Undef THEN row ELSE goalNumber]

\* the goal loadCalorieGoal of App sets from the response
loadedGoal(data) ==
  LET goal == IF data.isObject THEN Nullish(data.calorieGoal, Num(200000))
              ELSE Nullish(data.number, Num(200000))
  IN  JsOr(ToNumber(goal), Num(200000)).v

CALORIE_GOAL == 200000

RECURSIVE SumCalories(_)
\* entries.reduce((sum, entry) => sum + entry.calories, 0)
SumCalories(es) == IF es = <<>> THEN 0 ELSE es[1] + SumCalories(Tail(es))

getStatusColor(percentage) ==
  IF percentage < 80 THEN "#ffc107"
  ELSE IF percentage <= 110 THEN "#28a745"
  ELSE "#dc3545"

\* a badge that is over from 110 on
statusBadgeStrict(percentage) ==
  IF percentage < 80 THEN "under"
  ELSE IF percentage < 110 THEN "on-track"
  ELSE "over"

\* the class of the status badge
statusBadge(percentage) ==
  IF percentage < 80 THEN "under"
  ELSE IF percentage <= 110 THEN "on-track"
  ELSE "over"

\* what Analysis renders for its props; percentage is a whole number
Analysis(props) ==
  LET total == SumCalories(props.entries)
      percentage == RoundDiv(total * 100, CALORIE_GOAL)
  IN  [total |-> total,
       remaining |-> CALORIE_GOAL - total,
       percentage |-> percentage,
       entryCount |-> Len(props.entries),
       width |-> IF percentage < 100 THEN percentage ELSE 100,
       color |-> getStatusColor(percentage),
       badge |-> statusBadge(percentage)]

\* ---- inputs of the goal -------------------------------------------------
\* the calories of an entry of the selected day
CalorieInputs == {10000, 150000, 159900, 160000, 220000, 220100}

\* what the user types in the goal field of UserSettings
GoalInputs == {Num(160000), Num(250000), Num(0), Num(0 - 50000), NaN}

\* newCalorieGoal of a request body: missing, null, a non-numeric text,
\* zero, a negative and a positive number
GoalBodies == {Undef, Null, Str, Num(0), Num(0 - 50000), Num(180000)}

\* the user's row as sign-in finds it: none, no goal stored, or a goal
UserRows == {Undef, Null, Num(200000), Num(180000)}

\* ------------------------------------------------------------------------
\* State
\* ------------------------------------------------------------------------
\* the extractor: the revision called, its argument, the loop index, the
\* profile being built and the position in the function
VARIABLES impl, foodData, i, nutrients, exPc

\* the entry store and HistoricalTrends: the rows of the entries table,
\* the signed-in user, the browser's offset from UTC, the two Date objects
\* and the component state of the last render that loaded data; lastId is
\* the AUTOINCREMENT sequence of the table and entReq the last request to
\* /api/entries with the status it was answered with
VARIABLES entries, uid, tz, endDate, startDate, dateRange, summaryData, trPc,
          lastId, entReq

\* EntryForm: the useState values of the component
VARIABLES name, quantity, calories, protein, fat, carbs, selectedFood

\* the goal: calorieGoal of the user's row in users, the calorieGoal and
\* entries state of App, and what Analysis last rendered
VARIABLES userRow, calorieGoal, appEntries, analysis

\* the aggregation endpoints: the last GET /api/summary request and its
\* response, the totals last handed to pollSuggestions, and which of the
\* two endpoints answered last
VARIABLES sumReq, sumResp, aiTotals, aggPc

exVars == <<impl, foodData, i, nutrients, exPc>>

trVars == <<entries, uid, tz, endDate, startDate, dateRange, summaryData, trPc,
            lastId, entReq>>

formVars == <<name, quantity, calories, protein, fat, carbs, selectedFood>>

goalVars == <<userRow, calorieGoal, appEntries, analysis>>

aggVars == <<sumReq, sumResp, aiTotals, aggPc>>

\* DateSelector: selectedDate of App, the today of the last render, the
\* time zone of the browser and the button clicked last
VARIABLES selectedDate, dsToday, dsZone, dsLast

dsVars == <<selectedDate, dsToday, dsZone, dsLast>>

coreVars == <<exVars, trVars, formVars, goalVars, aggVars>>

\* the food lookup of one backend module: which module it is, its foodCache
\* (by FDC id), the response of the call that populated each key, and the
\* last call with its response
VARIABLES cacheImpl, foodCache, populatedBy, lookup

cacheVars == <<cacheImpl, foodCache, populatedBy, lookup>>

\* the food history: which backend serves POST /api/entries, the records
\* of one user's foods, how many entries were created per name, and the
\* requests in flight (where each stands, its name, what its query saw)
VARIABLES foodBackend, foods, logged, reqs

foodVars == <<foodBackend, foods, logged, reqs>>

\* the user document of Firestore: the document of one user and the
\* authenticated requests in flight (where each stands, whether it is a
\* goal update, what its ensureUserExists read)
VARIABLES userDoc, authReqs

userVars == <<userDoc, authReqs>>

\* what HistoricalTrends last rendered: the chart selected, the calorieGoal
\* prop, the bars of the chart and the rows of the table, in screen order
VARIABLES chartType, goalProp, chartBars, tableRows

chartVars == <<chartType, goalProp, chartBars, tableRows>>

\* foodRecognition.js: the module variables model, isLoading and
\* loadPromise (a model and a promise are named by the number of the load
\* that makes them, 0 is null), the loads started, the callers of
\* loadModel, and how often clearModelCache ran
VARIABLES model, isLoading, loadPromise, loads, callers, clears

loaderVars == <<model, isLoading, loadPromise, loads, callers, clears>>

moreVars == <<dsVars, cacheVars, foodVars, userVars, chartVars, loaderVars>>

vars == <<coreVars, moreVars>>

\* ---- the components at rest (a specification runs one component) -------
DsIdle ==
  /\ selectedDate = Today
  /\ dsToday = Today
  /\ dsZone = UTC
  /\ dsLast = "idle"

CacheIdle ==
  /\ cacheImpl = "usda"
  /\ foodCache = [id \in FdcIds |-> AbsentResult]
  /\ populatedBy = [id \in FdcIds |-> NoResponse]
  /\ lookup = [fdcId |-> 0, hit |-> FALSE, response |-> NoResponse]

FoodIdle ==
  /\ foodBackend = "sqlite"
  /\ foods = <<>>
  /\ logged = [n \in FoodNames |-> 0]
  /\ reqs = [r \in Requests |-> IdleRequest]

UserIdle ==
  /\ userDoc = NoDoc
  /\ authReqs = [r \in Requests |-> IdleAuth]

ChartIdle ==
  /\ chartType = "calories"
  /\ goalProp = 200000
  /\ chartBars = <<>>
  /\ tableRows = <<>>

LoaderIdle ==
  /\ model = 0
  /\ isLoading = FALSE
  /\ loadPromise = 0
  /\ loads = <<>>
  /\ callers = [c \in Callers |-> IdleCaller]
  /\ clears = 0

MoreIdle == DsIdle /\ CacheIdle /\ FoodIdle /\ UserIdle /\ ChartIdle /\ LoaderIdle

ExIdle ==
  /\ impl = "ai"
  /\ foodData = [t |-> "undefined", fn |-> "undefined", items |-> <<>>]
  /\ i = 0
  /\ nutrients = [calories |-> Num(0), protein |-> Num(0), fat |-> Num(0), carbs |-> Num(0)]
  /\ exPc = "idle"

TrIdle ==
  /\ entries = <<>>
  /\ uid = "u1"
  /\ tz = 0
  /\ endDate = [day |-> 0, tod |-> 0]
  /\ startDate = [day |-> 0, tod |-> 0]
  /\ dateRange = 7
  /\ summaryData = <<>>
  /\ trPc = "idle"
  /\ lastId = 0
  /\ entReq = NoEntryRequest

AggIdle ==
  /\ sumReq = NoRequest
  /\ sumResp = <<>>
  /\ aiTotals = NoTotals
  /\ aggPc = "idle"

GoalIdle ==
  /\ userRow = Undef
  /\ calorieGoal = 200000
  /\ appEntries = <<>>
  /\ analysis = Analysis([entries |-> <<>>, calorieGoal |-> 200000])

\* ---- the extractor as a state machine -----------------------------------
ExInit ==
  /\ impl \in Impls
  /\ \/ foodData \in NonListFoods
     \/ \E sh \in Shapes, k \in 0..MaxObs :
          \E s \in [1..k -> ObsOf(sh)] : foodData = MkFood("object", "array", s)
  /\ i = 0
  /\ nutrients = ZeroProfile
  /\ exPc = "call"

\* the entry without the Array.isArray test: a truthy foodNutrients that is
\* not iterable makes the for loop throw
ExtractCallAnyTruthy ==
  /\ exPc = "call"
  /\ exPc' = IF foodData.t # "object" THEN "threw"
             ELSE IF foodData.fn \in {"undefined", "null"} THEN "done"
             ELSE IF foodData.fn = "other" THEN "threw" ELSE "loop"
  /\ i' = 1
  /\ UNCHANGED <<impl, foodData, nutrients>>
  /\ UNCHANGED <<trVars, formVars, goalVars, aggVars, moreVars>>

\* entry of extractNutrients: the foodNutrients check
ExtractCall ==
  /\ exPc = "call"
  /\ exPc' = IF foodData.t # "object" THEN "threw"
             ELSE IF foodData.fn # "array" THEN "done" ELSE "loop"
  /\ i' = 1
  /\ UNCHANGED <<impl, foodData, nutrients>>
  /\ UNCHANGED <<trVars, formVars, goalVars, aggVars, moreVars>>

\* one iteration of for (const nutrient of foodData.foodNutrients)
ExtractLoop ==
  /\ exPc = "loop"
  /\ i <= Len(foodData.items)
  /\ IF foodData.items[i].isNull
     THEN exPc' = "threw" /\ UNCHANGED <<i, nutrients>>
     ELSE /\ nutrients' = ProcessNutrient(impl, nutrients, foodData.items[i])
          /\ i' = i + 1
          /\ UNCHANGED exPc
  /\ UNCHANGED <<impl, foodData>>
  /\ UNCHANGED <<trVars, formVars, goalVars, aggVars, moreVars>>

\* after the loop: the calorie estimate and the return
ExtractReturn ==
  /\ exPc = "loop"
  /\ i > Len(foodData.items)
  /\ nutrients' = EstimateCalories(nutrients)
  /\ exPc' = "done"
  /\ UNCHANGED <<impl, foodData, i>>
  /\ UNCHANGED <<trVars, formVars, goalVars, aggVars, moreVars>>

\* ---- EntryForm as a state machine ------------------------------------------
\* the component as mounted (also its state while another component runs)
FormInit ==
  /\ name = ""
  /\ quantity = <<>>
  /\ calories = Empty
  /\ protein = Empty
  /\ fat = Empty
  /\ carbs = Empty
  /\ selectedFood = NoFood

Shown == [calories |-> calories, protein |-> protein, fat |-> fat, carbs |-> carbs]

SetShown(r) ==
  /\ calories' = r.calories
  /\ protein' = r.protein
  /\ fat' = r.fat
  /\ carbs' = r.carbs

\* number.toString() of each field of a profile
AsShown(r) == [calories |-> Num(r.calories), protein |-> Num(r.protein),
               fat |-> Num(r.fat), carbs |-> Num(r.carbs)]

EmptyShown == [calories |-> Empty, protein |-> Empty, fat |-> Empty, carbs |-> Empty]

\* the numbers of the shown fields (0 for an empty field)
ShownNumbers == [calories |-> calories.v, protein |-> protein.v, fat |-> fat.v, carbs |-> carbs.v]

handleNameChange ==
  \E newName \in NameInputs :
    /\ newName # name
    /\ name' = newName
    /\ IF selectedFood.type # "none"
          /\ (selectedFood.type = "manual" \/ newName # selectedFood.name)
       THEN SetShown(EmptyShown) /\ selectedFood' = NoFood
       ELSE UNCHANGED <<calories, protein, fat, carbs, selectedFood>>
    /\ UNCHANGED quantity
    /\ UNCHANGED <<exVars, trVars, goalVars, aggVars, moreVars>>

handleSuggestionSelect ==
  \E suggestion \in LocalFoods :
    /\ name' = suggestion.name
    /\ SetShown([calories |-> suggestion.calories, protein |-> suggestion.protein,
                 fat |-> suggestion.fat, carbs |-> suggestion.carbs])
    /\ selectedFood' = [type |-> "local", name |-> suggestion.name,
                        baseNutrition |-> NoFood.baseNutrition]
    /\ UNCHANGED quantity
    /\ UNCHANGED <<exVars, trVars, goalVars, aggVars, moreVars>>

handleUSDASelect ==
  \E food \in UsdaFoods :
    LET baseData == [calories |-> JsOr(food.calories, Num(0)).v,
                     protein |-> JsOr(food.protein, Num(0)).v,
                     fat |-> JsOr(food.fat, Num(0)).v,
                     carbs |-> JsOr(food.carbs, Num(0)).v]
    IN  /\ name' = food.name
        /\ SetShown(AsShown(USDASelectShown(selectedFood, baseData, quantity)))
        /\ selectedFood' = [type |-> "usda", name |-> food.name, baseNutrition |-> baseData]
        /\ UNCHANGED quantity
        /\ UNCHANGED <<exVars, trVars, goalVars, aggVars, moreVars>>

handleManualEntry ==
  /\ selectedFood' = [NoFood EXCEPT !.type = "manual"]
  /\ UNCHANGED <<name, quantity, calories, protein, fat, carbs>>
  /\ UNCHANGED <<exVars, trVars, goalVars, aggVars, moreVars>>

\* onChange of the quantity input
quantityOnChange ==
  \E newQuantity \in QuantityInputs :
    /\ newQuantity # quantity
    /\ quantity' = newQuantity
    /\ SetShown(IF selectedFood.type = "usda"
                THEN AsShown(QuantityChangeShown(selectedFood, newQuantity, ShownNumbers))
                ELSE Shown)
    /\ UNCHANGED <<name, selectedFood>>
    /\ UNCHANGED <<exVars, trVars, goalVars, aggVars, moreVars>>

\* onChange of the calories, protein, fat or carbs input
fieldOnChange ==
  \E f \in Fields, v \in FieldInputs :
    /\ Shown[f] # v
    /\ SetShown([Shown EXCEPT ![f] = v])
    /\ selectedFood' = IF selectedFood.type = "usda"
                       THEN [NoFood EXCEPT !.type = "manual"] ELSE selectedFood
    /\ UNCHANGED <<name, quantity>>
    /\ UNCHANGED <<exVars, trVars, goalVars, aggVars, moreVars>>

\* the Clear Selection button
clearSelection ==
  /\ selectedFood.type # "none"
  /\ selectedFood' = NoFood
  /\ SetShown(EmptyShown)
  /\ UNCHANGED <<name, quantity>>
  /\ UNCHANGED <<exVars, trVars, goalVars, aggVars, moreVars>>

\* handleSubmit with every required field filled: onAdd and the reset
handleSubmit ==
  /\ name # ""
  /\ calories # Empty /\ protein # Empty /\ fat # Empty /\ carbs # Empty
  /\ name' = ""
  /\ quantity' = <<>>
  /\ SetShown(EmptyShown)
  /\ selectedFood' = NoFood
  /\ UNCHANGED <<exVars, trVars, goalVars, aggVars, moreVars>>

FormNext ==
  \/ handleNameChange \/ handleSuggestionSelect \/ handleUSDASelect \/ handleManualEntry
  \/ quantityOnChange \/ fieldOnChange \/ clearSelection \/ handleSubmit

InitForm == FormInit /\ ExIdle /\ TrIdle /\ GoalIdle /\ AggIdle /\ MoreIdle

SpecForm == InitForm /\ [][FormNext]_vars

\* ---- the entry store and HistoricalTrends as a state machine ------------
TrInit ==
  /\ entries = <<>>
  /\ uid = "u1"
  /\ tz \in {0 - 1, 0, 1}
  /\ endDate = Ts(Today, 0)
  /\ startDate = Ts(Today, 0)
  /\ dateRange = 7
  /\ summaryData = <<>>
  /\ trPc = "mounted"
  /\ lastId = 0
  /\ entReq = NoEntryRequest

\* POST /api/entries by any user
CreateEntry ==
  /\ lastId < MaxEntries
  /\ \E r \in EntryInputs :
       /\ entries' = Append(entries,
            [id |-> lastId + 1, userId |-> r.userId, date |-> r.date,
             calories |-> r.body.calories, protein |-> r.body.protein,
             fat |-> r.body.fat, carbs |-> r.body.carbs])
       /\ entReq' = [op |-> "post", uid |-> r.userId, id |-> lastId + 1, status |-> 201]
  /\ lastId' = lastId + 1
  /\ UNCHANGED <<uid, tz, endDate, startDate, dateRange, summaryData, trPc>>
  /\ UNCHANGED <<exVars, formVars, goalVars, aggVars, moreVars>>

\* a render of HistoricalTrends with date range n (the mount or a change of
\* the select) and the loadTrendData its effect runs: the clock reads t for
\* endDate and t + delta for startDate
LoadTrendData ==
  \E n \in DateRangeOptions, t \in 0..(TicksPerDay - 1), delta \in {0, 1} :
    LET e == Ts(Today, t)
        s == setDate(Ts(Today, (t + delta) % TicksPerDay), e.day - n + 1)
        data == getSummary(entries, uid, formatDate(s, tz), formatDate(e, tz))
    IN  /\ dateRange' = n
        /\ endDate' = e
        /\ startDate' = s
        /\ summaryData' = FillDates(s, e, data, tz)
        /\ trPc' = "loaded"
        /\ UNCHANGED <<entries, uid, tz, lastId, entReq>>
        /\ UNCHANGED <<exVars, formVars, goalVars, aggVars, moreVars>>

TrNext == CreateEntry \/ LoadTrendData

InitTrends == TrInit /\ ExIdle /\ FormInit /\ GoalIdle /\ AggIdle /\ MoreIdle

SpecTrends == InitTrends /\ [][TrNext]_vars

\* ---- the aggregation endpoints as a state machine ------------------------
\* GET /api/summary by any signed-in user, answered by either revision
getSummaryRequest ==
  /\ \E b \in Backends, u \in Users, r \in SummaryRanges :
       /\ sumReq' = [backend |-> b, uid |-> u, startDate |-> r[1], endDate |-> r[2]]
       /\ sumResp' = summaryOf(b, entries, u, r[1], r[2])
  /\ aggPc' = "summary"
  /\ UNCHANGED aiTotals
  /\ UNCHANGED <<exVars, trVars, formVars, goalVars, moreVars>>

\* GET /api/ai/aisuggestions by any signed-in user, up to the call of
\* pollSuggestions(totals); the server's clock reads Today
getAISuggestions ==
  /\ \E u \in Users :
       /\ sumReq' = [backend |-> "sqlite", uid |-> u, startDate |-> Today - 7,
                     endDate |-> Today]
       /\ aiTotals' = aiSuggestionTotals(entries, u, Today)
  /\ aggPc' = "ai"
  /\ UNCHANGED sumResp
  /\ UNCHANGED <<exVars, trVars, formVars, goalVars, moreVars>>

SummaryNext == CreateEntry \/ getSummaryRequest \/ getAISuggestions

InitSummary == AggIdle /\ TrIdle /\ ExIdle /\ FormInit /\ GoalIdle /\ MoreIdle

SpecSummary == InitSummary /\ [][SummaryNext]_vars

\* ---- App's calorie goal and the daily Analysis as a state machine -------
\* App mounted and signed in, before the goal is loaded
GoalInit ==
  /\ userRow \in UserRows
  /\ calorieGoal = 200000
  /\ appEntries = <<>>
  /\ analysis = Analysis([entries |-> <<>>, calorieGoal |-> 200000])

\* the render of <Analysis entries={entries} calorieGoal={calorieGoal} />
\* that follows a state change of App
Render == analysis' = Analysis([entries |-> appEntries', calorieGoal |-> calorieGoal'])

\* loadCalorieGoal: the request succeeds or fails
loadCalorieGoal ==
  /\ \E ok \in BOOLEAN :
       calorieGoal' = IF ok THEN loadedGoal(getGoalCalories(userRow)) ELSE 200000
  /\ UNCHANGED <<userRow, appEntries>>
  /\ Render
  /\ UNCHANGED <<exVars, trVars, formVars, aggVars, moreVars>>

\* handleCalorieGoalUpdate of UserSettings and saveUserCalorieGoal of App
saveUserCalorieGoal ==
  \E newGoal \in GoalInputs :
    LET goalNumber == ToNumber(newGoal)
        res == updateCalories(userRow, goalNumber)
    IN  /\ IF goalNumber.t = "nan" \/ goalNumber.v <= 0 \/ res.status # 200
           THEN UNCHANGED <<userRow, calorieGoal>>
           ELSE userRow' = res.row /\ calorieGoal' = goalNumber.v
        /\ UNCHANGED appEntries
        /\ Render
        /\ UNCHANGED <<exVars, trVars, formVars, aggVars, moreVars>>

\* handleSaveEntry for a new entry of the selected day, and the reload
handleSaveEntry ==
  /\ Len(appEntries) < MaxDayEntries
  /\ \E c \in CalorieInputs : appEntries' = Append(appEntries, c)
  /\ UNCHANGED <<userRow, calorieGoal>>
  /\ Render
  /\ UNCHANGED <<exVars, trVars, formVars, aggVars, moreVars>>

\* handleDeleteEntry, and the reload
handleDeleteEntry ==
  /\ \E k \in 1..Len(appEntries) :
       appEntries' = SubSeq(appEntries, 1, k - 1) \o SubSeq(appEntries, k + 1, Len(appEntries))
  /\ UNCHANGED <<userRow, calorieGoal>>
  /\ Render
  /\ UNCHANGED <<exVars, trVars, formVars, aggVars, moreVars>>

\* PUT /api/goal/updatecalories sent by any client of the API; the App on
\* screen is not told
putUpdateCalories ==
  /\ \E newCalorieGoal \in GoalBodies :
       userRow' = updateCalories(userRow, newCalorieGoal).row
  /\ UNCHANGED <<calorieGoal, appEntries, analysis>>
  /\ UNCHANGED <<exVars, trVars, formVars, aggVars, moreVars>>

\* ---- DateSelector as rendered by App ------------------------------------
DsInit ==
  /\ selectedDate \in (Today - 2)..Today
  /\ dsToday = Today
  /\ dsZone \in Zones
  /\ dsLast = "mounted"

handlePreviousDay ==
  /\ selectedDate > Today - MaxBack
  /\ selectedDate' = previousDay(dsZone, selectedDate)
  /\ dsLast' = "previous"
  /\ UNCHANGED <<dsToday, dsZone>>
  /\ UNCHANGED <<coreVars, cacheVars, foodVars, userVars, chartVars, loaderVars>>

\* a click on Next, which is disabled unless selectedDate < today
handleNextDay ==
  /\ selectedDate' = IF selectedDate < dsToday /\ nextDay(dsZone, selectedDate) <= dsToday
                     THEN nextDay(dsZone, selectedDate)
                     ELSE selectedDate
  /\ dsLast' = "next"
  /\ UNCHANGED <<dsToday, dsZone>>
  /\ UNCHANGED <<coreVars, cacheVars, foodVars, userVars, chartVars, loaderVars>>

\* Go to Today, rendered unless selectedDate is today
handleToday ==
  /\ selectedDate # dsToday
  /\ selectedDate' = dsToday
  /\ dsLast' = "today"
  /\ UNCHANGED <<dsToday, dsZone>>
  /\ UNCHANGED <<coreVars, cacheVars, foodVars, userVars, chartVars, loaderVars>>

\* a render after midnight UTC: today is read from the clock again
renderNextDay ==
  /\ dsToday = Today
  /\ dsToday' = Today + 1
  /\ dsLast' = "render"
  /\ UNCHANGED <<selectedDate, dsZone>>
  /\ UNCHANGED <<coreVars, cacheVars, foodVars, userVars, chartVars, loaderVars>>

DsNext == handlePreviousDay \/ handleNextDay \/ handleToday \/ renderNextDay

InitDates == DsInit /\ CacheIdle /\ FoodIdle /\ UserIdle /\ ChartIdle /\ LoaderIdle /\ ExIdle /\ TrIdle /\ FormInit /\ GoalIdle /\ AggIdle

SpecDates == InitDates /\ [][DsNext]_vars

\* ---- getUSDAFoodById ------------------------------------------------------
CacheInit ==
  /\ cacheImpl \in Impls
  /\ foodCache = [id \in FdcIds |-> AbsentResult]
  /\ populatedBy = [id \in FdcIds |-> NoResponse]
  /\ lookup = [fdcId |-> 0, hit |-> FALSE, response |-> NoResponse]

\* a call answered from the cache
getUSDAFoodByIdCached ==
  /\ \E id \in FdcIds :
       /\ foodCache[id].t = "object"
       /\ lookup' = [fdcId |-> id, hit |-> TRUE, response |-> cacheHit(foodCache[id])]
  /\ UNCHANGED <<cacheImpl, foodCache, populatedBy>>
  /\ UNCHANGED <<coreVars, dsVars, foodVars, userVars, chartVars, loaderVars>>

\* a call that goes to the food database (the API key is configured)
getUSDAFoodByIdFetched ==
  /\ \E id \in FdcIds, outcome \in FetchOutcomes, body \in UpstreamBodies(cacheImpl),
        alt \in {"500", "ok"} :
       /\ foodCache[id].t # "object"
       /\ LET r == IF outcome = "throws"
                   THEN [response |-> Envelope("Failed to fetch food data", NullResult),
                         cache |-> FALSE]
                   ELSE IF outcome = "404" /\ cacheImpl = "ai"
                   THEN [response |-> tryAlternateUSDAApproach(id, alt, body), cache |-> FALSE]
                   ELSE IF outcome # "ok"
                   THEN [response |-> Envelope("Food not found", NullResult), cache |-> FALSE]
                   ELSE lookupFetched(cacheImpl, id, body)
          IN  /\ lookup' = [fdcId |-> id, hit |-> FALSE, response |-> r.response]
              /\ foodCache' = IF r.cache THEN [foodCache EXCEPT ![id] = r.response.nutrients]
                              ELSE foodCache
              /\ populatedBy' = IF r.cache THEN [populatedBy EXCEPT ![id] = r.response]
                                ELSE populatedBy
  /\ UNCHANGED cacheImpl
  /\ UNCHANGED <<coreVars, dsVars, foodVars, userVars, chartVars, loaderVars>>

CacheNext == getUSDAFoodByIdCached \/ getUSDAFoodByIdFetched

InitCache == CacheInit /\ DsIdle /\ FoodIdle /\ UserIdle /\ ChartIdle /\ LoaderIdle /\ ExIdle /\ TrIdle /\ FormInit /\ GoalIdle /\ AggIdle

SpecCache == InitCache /\ [][CacheNext]_vars

\* ---- POST /api/entries and the food history ------------------------------
FoodInit ==
  /\ foodBackend \in Backends
  /\ foods = <<>>
  /\ logged = [n \in FoodNames |-> 0]
  /\ reqs = [r \in Requests |-> IdleRequest]

\* backend/index.js: the handler runs both statements without awaiting
postEntrySqlite ==
  /\ foodBackend = "sqlite"
  /\ \E r \in Requests, n \in FoodNames :
       /\ reqs[r].pc = "idle"
       /\ logged' = [logged EXCEPT ![n] = @ + 1]
       /\ foods' = insertOrIncrement(foods, n)
       /\ reqs' = [reqs EXCEPT ![r] = [pc |-> "done", name |-> n, doc |-> 0]]
  /\ UNCHANGED foodBackend
  /\ UNCHANGED <<coreVars, dsVars, cacheVars, userVars, chartVars, loaderVars>>

\* Firestore: await createEntry(...)
postCreateEntry ==
  /\ foodBackend = "firestore"
  /\ \E r \in Requests, n \in FoodNames :
       /\ reqs[r].pc = "idle"
       /\ logged' = [logged EXCEPT ![n] = @ + 1]
       /\ reqs' = [reqs EXCEPT ![r] = [pc |-> "created", name |-> n, doc |-> 0]]
  /\ UNCHANGED <<foodBackend, foods>>
  /\ UNCHANGED <<coreVars, dsVars, cacheVars, userVars, chartVars, loaderVars>>

\* upsertFood: the awaited query for a record of the name
upsertFoodQuery ==
  /\ \E r \in Requests :
       /\ reqs[r].pc = "created"
       /\ reqs' = [reqs EXCEPT ![r] = [pc |-> "queried", name |-> reqs[r].name,
                                       doc |-> findFood(foods, reqs[r].name)]]
  /\ UNCHANGED <<foodBackend, foods, logged>>
  /\ UNCHANGED <<coreVars, dsVars, cacheVars, userVars, chartVars, loaderVars>>

\* upsertFood: the update of the record found, or addFood
upsertFoodWrite ==
  /\ \E r \in Requests :
       /\ reqs[r].pc = "queried"
       /\ foods' = writeFood(foods, reqs[r].name, reqs[r].doc)
       /\ reqs' = [reqs EXCEPT ![r].pc = "done"]
  /\ UNCHANGED <<foodBackend, logged>>
  /\ UNCHANGED <<coreVars, dsVars, cacheVars, userVars, chartVars, loaderVars>>

FoodNext == postEntrySqlite \/ postCreateEntry \/ upsertFoodQuery \/ upsertFoodWrite

InitFoods ==
  FoodInit /\ DsIdle /\ CacheIdle /\ UserIdle /\ ChartIdle /\ LoaderIdle /\ ExIdle /\ TrIdle /\ FormInit /\ GoalIdle /\ AggIdle

SpecFoods == InitFoods /\ [][FoodNext]_vars

\* ---- verifyIdToken, ensureUserExists and the goal update -----------------
UserInit ==
  /\ userDoc \in {NoDoc, createUser("ann")}
  /\ authReqs = [r \in Requests |-> IdleAuth]

\* a request arrives with a valid token; ensureUserExists awaits userRef.get()
ensureUserExistsGet ==
  /\ \E r \in Requests, k \in {"get", "putGoal"}, n \in TokenNames :
       /\ authReqs[r].pc = "idle"
       /\ authReqs' = [authReqs EXCEPT ![r] =
            [pc |-> "read", kind |-> k, exists |-> userDoc.exists, name |-> n]]
  /\ UNCHANGED userDoc
  /\ UNCHANGED <<coreVars, dsVars, cacheVars, foodVars, chartVars, loaderVars>>

\* ensureUserExists writes, and the middleware calls next(); a request
\* that is no goal update is of no further interest
ensureUserExistsWrite ==
  /\ \E r \in Requests :
       /\ authReqs[r].pc = "read"
       /\ userDoc' = ensureWrite(userDoc, authReqs[r].exists, authReqs[r].name)
       /\ authReqs' = [authReqs EXCEPT ![r].pc =
            IF authReqs[r].kind = "putGoal" THEN "ensured" ELSE "done"]
  /\ UNCHANGED <<coreVars, dsVars, cacheVars, foodVars, chartVars, loaderVars>>

\* PUT /api/goal/updatecalories: updateUser(uid, { calorieGoal })
updateUserGoal ==
  /\ \E r \in Requests :
       /\ authReqs[r].pc = "ensured"
       /\ userDoc' = IF userDoc.exists THEN [userDoc EXCEPT !.calorieGoal = NewGoal]
                     ELSE userDoc
       /\ authReqs' = [authReqs EXCEPT ![r].pc = "done"]
  /\ UNCHANGED <<coreVars, dsVars, cacheVars, foodVars, chartVars, loaderVars>>

UserNext == ensureUserExistsGet \/ ensureUserExistsWrite \/ updateUserGoal

InitUsers ==
  UserInit /\ DsIdle /\ CacheIdle /\ FoodIdle /\ ChartIdle /\ LoaderIdle /\ ExIdle /\ TrIdle /\ FormInit /\ GoalIdle
    /\ AggIdle

SpecUsers == InitUsers /\ [][UserNext]_vars

\* ---- HistoricalTrends rendering its state ---------------------------------
\* the row POST /api/entries stored for the request r as the id-th entry
storedEntry(id, r) ==
  [id |-> id, userId |-> r.userId, date |-> r.date, calories |-> r.body.calories,
   protein |-> r.body.protein, fat |-> r.body.fat, carbs |-> r.body.carbs]

\* the entries table when HistoricalTrends mounts: empty, or what two
\* POST /api/entries left there
TrendStores ==
  {<<>>} \cup
  {<<storedEntry(1, [userId |-> "u1", date |-> d, body |-> b]),
     storedEntry(2, [userId |-> "u1", date |-> Today, body |-> b])>> :
       d \in {Today - 1, Today}, b \in BodyInputs}

\* HistoricalTrends mounted over a store that holds entries already
ChartInit ==
  /\ entries \in TrendStores
  /\ lastId = Len(entries)
  /\ entReq = IF entries = <<>> THEN NoEntryRequest
              ELSE [op |-> "post", uid |-> "u1", id |-> Len(entries), status |-> 201]
  /\ uid = "u1"
  /\ tz \in {0 - 1, 0, 1}
  /\ endDate = Ts(Today, 0)
  /\ startDate = Ts(Today, 0)
  /\ dateRange = 7
  /\ summaryData = <<>>
  /\ trPc = "mounted"
  /\ chartType = "calories"
  /\ goalProp \in TrendGoals
  /\ chartBars = <<>>
  /\ tableRows = <<>>

\* the render that follows setSummaryData
trendsRender ==
  /\ trPc = "loaded"
  /\ chartBars' = renderChart(summaryData, chartType, goalProp)
  /\ tableRows' = renderTable(summaryData)
  /\ summaryData' = reverseInPlace(summaryData)
  /\ trPc' = "rendered"
  /\ UNCHANGED <<chartType, goalProp>>
  /\ UNCHANGED <<entries, uid, tz, endDate, startDate, dateRange, lastId, entReq>>
  /\ UNCHANGED <<exVars, formVars, goalVars, aggVars, dsVars, cacheVars, foodVars, userVars,
                 loaderVars>>

\* a click on Calories or Macros that changes the chart, and the render
\* that follows
setChartType ==
  /\ trPc = "rendered"
  /\ \E t \in {"calories", "macros"} :
       /\ t # chartType
       /\ chartType' = t
       /\ chartBars' = renderChart(summaryData, t, goalProp)
  /\ tableRows' = renderTable(summaryData)
  /\ summaryData' = reverseInPlace(summaryData)
  /\ UNCHANGED goalProp
  /\ UNCHANGED <<entries, uid, tz, endDate, startDate, dateRange, lastId, entReq, trPc>>
  /\ UNCHANGED <<exVars, formVars, goalVars, aggVars, dsVars, cacheVars, foodVars, userVars,
                 loaderVars>>

ChartNext == LoadTrendData \/ trendsRender \/ setChartType

InitChart ==
  ChartInit /\ DsIdle /\ CacheIdle /\ FoodIdle /\ UserIdle /\ LoaderIdle /\ ExIdle /\ FormInit
    /\ GoalIdle /\ AggIdle

SpecChart == InitChart /\ [][ChartNext]_vars

\* ---- loadModel, as recognizeFood awaits it --------------------------------
LoaderInit == LoaderIdle

\* loadModel up to its return: the model, the promise in flight, or a new
\* load
loadModel ==
  /\ \E c \in Callers :
       /\ callers[c].pc = "idle"
       /\ IF model # 0
          THEN /\ callers' = [callers EXCEPT ![c] = [pc |-> "got", promise |-> 0, value |-> model]]
               /\ UNCHANGED <<isLoading, loadPromise, loads>>
          ELSE IF joinsLoad(isLoading, loadPromise)
          THEN /\ callers' = [callers EXCEPT ![c] =
                    [pc |-> "waiting", promise |-> loadPromise, value |-> 0]]
               /\ UNCHANGED <<isLoading, loadPromise, loads>>
          ELSE /\ Len(loads) < MaxLoads
               /\ isLoading' = TRUE
               /\ loadPromise' = Len(loads) + 1
               /\ loads' = Append(loads, "pending")
               /\ callers' = [callers EXCEPT ![c] =
                    [pc |-> "waiting", promise |-> Len(loads) + 1, value |-> 0]]
  /\ UNCHANGED <<model, clears>>
  /\ UNCHANGED <<coreVars, dsVars, cacheVars, foodVars, userVars, chartVars>>

\* the imports and mobilenetModule.load() succeed: lines 45 to 51
loadSucceeds ==
  /\ \E id \in 1..Len(loads) :
       /\ loads[id] = "pending"
       /\ model' = id
       /\ loads' = [loads EXCEPT ![id] = "resolved"]
       /\ callers' = settle(callers, id, "got", id)
  /\ isLoading' = FALSE
  /\ UNCHANGED <<loadPromise, clears>>
  /\ UNCHANGED <<coreVars, dsVars, cacheVars, foodVars, userVars, chartVars>>

\* one of the awaited steps throws: the catch of lines 52 to 56
loadFails ==
  /\ \E id \in 1..Len(loads) :
       /\ loads[id] = "pending"
       /\ loads' = [loads EXCEPT ![id] = "rejected"]
       /\ callers' = settle(callers, id, "failed", 0)
  /\ isLoading' = FALSE
  /\ loadPromise' = 0
  /\ UNCHANGED <<model, clears>>
  /\ UNCHANGED <<coreVars, dsVars, cacheVars, foodVars, userVars, chartVars>>

\* recognizeFood returns or throws; its caller may call again
recognizeFoodEnds ==
  /\ \E c \in Callers :
       /\ callers[c].pc \in {"got", "failed"}
       /\ callers' = [callers EXCEPT ![c] = IdleCaller]
  /\ UNCHANGED <<model, isLoading, loadPromise, loads, clears>>
  /\ UNCHANGED <<coreVars, dsVars, cacheVars, foodVars, userVars, chartVars>>

clearModelCache ==
  /\ clears < MaxClears
  /\ model' = 0
  /\ isLoading' = FALSE
  /\ loadPromise' = 0
  /\ clears' = clears + 1
  /\ UNCHANGED <<loads, callers>>
  /\ UNCHANGED <<coreVars, dsVars, cacheVars, foodVars, userVars, chartVars>>

LoaderNext == loadModel \/ loadSucceeds \/ loadFails \/ recognizeFoodEnds \/ clearModelCache

InitLoader ==
  LoaderInit /\ DsIdle /\ CacheIdle /\ FoodIdle /\ UserIdle /\ ChartIdle /\ ExIdle /\ TrIdle
    /\ FormInit /\ GoalIdle /\ AggIdle

SpecLoader == InitLoader /\ [][LoaderNext]_vars

\* ---- PUT and DELETE /api/entries/:id ------------------------------------
putEntry ==
  /\ \E u \in Users, id \in EntryIds, body \in UpdateBodies :
       IF ~ownsEntry(entries, u, id)
       THEN /\ entReq' = [op |-> "put", uid |-> u, id |-> id, status |-> 403]
            /\ UNCHANGED entries
       ELSE /\ entReq' = [op |-> "put", uid |-> u, id |-> id, status |-> updateStatus(body)]
            /\ entries' = IF updateStatus(body) = 200
                          THEN [k \in 1..Len(entries) |->
                                  IF entries[k].id = id THEN updatedRow(entries[k], body)
                                  ELSE entries[k]]
                          ELSE entries
  /\ UNCHANGED <<uid, tz, endDate, startDate, dateRange, summaryData, trPc, lastId>>
  /\ UNCHANGED <<exVars, formVars, goalVars, aggVars, moreVars>>

deleteEntry ==
  /\ \E u \in Users, id \in EntryIds :
       IF ~ownsEntry(entries, u, id)
       THEN /\ entReq' = [op |-> "delete", uid |-> u, id |-> id, status |-> 403]
            /\ UNCHANGED entries
       ELSE /\ entReq' = [op |-> "delete", uid |-> u, id |-> id, status |-> 204]
            /\ entries' = deleteRow(entries, id)
  /\ UNCHANGED <<uid, tz, endDate, startDate, dateRange, summaryData, trPc, lastId>>
  /\ UNCHANGED <<exVars, formVars, goalVars, aggVars, moreVars>>

EntriesNext == CreateEntry \/ putEntry \/ deleteEntry

InitEntries == TrIdle /\ AggIdle /\ ExIdle /\ FormInit /\ GoalIdle /\ MoreIdle

SpecEntries == InitEntries /\ [][EntriesNext]_vars

GoalNext ==
  loadCalorieGoal \/ saveUserCalorieGoal \/ handleSaveEntry \/ handleDeleteEntry
    \/ putUpdateCalories

InitGoal == GoalInit /\ ExIdle /\ TrIdle /\ FormInit /\ AggIdle /\ MoreIdle

SpecGoal == InitGoal /\ [][GoalNext]_vars

ExNext == ExtractCall \/ ExtractLoop \/ ExtractReturn

InitExtract == ExInit /\ TrIdle /\ FormInit /\ GoalIdle /\ AggIdle /\ MoreIdle

SpecExtract == InitExtract /\ [][ExNext]_vars

\* ------------------------------------------------------------------------
\* Properties of the extractor
\* ------------------------------------------------------------------------
IsPos(x) == x.t = "num" /\ x.v > 0

\* the canonical field the implementation resolves an observation to, and
\* the number it reads from it
ObsField(im, o) ==
  IF im = "ai" THEN nutrientMapAI(FirstId(o.number, o.nid, o.nutrientId))
  ELSE nutrientMapUSDA(FirstId(o.nid, o.nutrientId, 0))

ObsGate(im, o) == IF im = "ai" THEN Present(o.amount) ELSE Present(o.value)

ObsValue(im, o) ==
  IF im = "ai" THEN parseFloat(JsOr(JsOr(o.amount, o.value), Num(0)))
  ELSE ToNumber(JsOr(JsOr(o.amount, o.value), Num(0)))

\* the identifier an observation carries, whichever field holds it
AnyId(o) == FirstId(o.number, o.nid, o.nutrientId)

SetMax(S) == CHOOSE m \in S : \A x \in S : x <= m

Reverse(s) == [k \in 1..Len(s) |-> s[Len(s) + 1 - k]]

\* the legacy compact number replaced by the long number of the same nutrient
LongId(id) ==
  CASE id = 208 -> 1008 [] id = 203 -> 1003 [] id = 204 -> 1004 [] id = 205 -> 1005
    [] OTHER -> id

ToLong(fd) ==
  [fd EXCEPT !.items = [k \in 1..Len(fd.items) |->
     [fd.items[k] EXCEPT !.number = LongId(@), !.nid = LongId(@), !.nutrientId = LongId(@)]]]

\* C1: a returned profile with protein, fat or carbs greater than 0 has
\* nonzero calories (calories == 0 with a nonzero macro is never returned).
C1_NonzeroMacrosHaveCalories ==
  exPc = "done" =>
    ~(nutrients.calories = Num(0)
      /\ (IsPos(nutrients.protein) \/ IsPos(nutrients.fat) \/ IsPos(nutrients.carbs)))

\* C2: a record yields the same profile whether its observations carry the
\* legacy compact numbers (208, 203, 204, 205) or the long numbers (1008,
\* 1003, 1004, 1005); a record whose only observation is 208 with value 95
\* yields {calories: 95, protein: 0, fat: 0, carbs: 0}.
C2_BothSchemesResolveAlike ==
  exPc = "done" =>
    /\ nutrients = extractNutrients(impl, ToLong(foodData)).nutrients
    /\ (/\ foodData.fn = "array" /\ Len(foodData.items) = 1
        /\ ~foodData.items[1].isNull
        /\ AnyId(foodData.items[1]) = 208
        /\ ObsGate(impl, foodData.items[1])
        /\ ObsValue(impl, foodData.items[1]) = Num(9500))
       => nutrients = [ZeroProfile EXCEPT !.calories = Num(9500)]

\* C3: when several observations of a record resolve to the same canonical
\* field, the extracted field is the maximum of their rounded values, and
\* the profile does not depend on the order of the observations.
C3_DuplicatesTakeMaximum ==
  (exPc = "done" /\ foodData.fn = "array") =>
    /\ \A f \in {"protein", "fat", "carbs"} :
         LET D == {k \in 1..Len(foodData.items) :
                     /\ ObsField(impl, foodData.items[k]) = f
                     /\ ObsGate(impl, foodData.items[k])
                     /\ IsPos(ObsValue(impl, foodData.items[k]))}
         IN  Cardinality(D) >= 2 =>
               nutrients[f] = Num(SetMax({Round1(ObsValue(impl, foodData.items[k]).v) : k \in D}))
    /\ nutrients = extractNutrients(impl, [foodData EXCEPT !.items = Reverse(@)]).nutrients

\* C4: extractNutrients never raises, whatever the shape of its input.
C4_NeverRaises == exPc # "threw"

\* C10: a dietary-fiber observation (291) processed while carbs is already
\* nonzero leaves carbs unchanged.
C10_FiberOnlyWhenCarbsZero ==
  [][(/\ exPc = "loop" /\ i <= Len(foodData.items)
      /\ ~foodData.items[i].isNull
      /\ AnyId(foodData.items[i]) = 291
      /\ nutrients.carbs # Num(0))
     => nutrients'.carbs = nutrients.carbs]_vars

\* C11: a total-sugars observation (269) processed while carbs is already
\* nonzero leaves carbs unchanged.
C11_SugarsOnlyWhenCarbsZero ==
  [][(/\ exPc = "loop" /\ i <= Len(foodData.items)
      /\ ~foodData.items[i].isNull
      /\ AnyId(foodData.items[i]) = 269
      /\ nutrients.carbs # Num(0))
     => nutrients'.carbs = nutrients.carbs]_vars

\* C12: every returned profile has protein, fat and carbs rounded to one
\* decimal place and calories rounded to the nearest integer.
C12_ReturnedProfileRounded ==
  exPc = "done" =>
    /\ \A f \in {"protein", "fat", "carbs"} :
         nutrients[f].t = "num" /\ nutrients[f].v % 10 = 0
    /\ nutrients.calories.t = "num" /\ nutrients.calories.v % 100 = 0

\* C13: when the loop ends with calories 0 and numeric macros of which at
\* least one is nonzero, the returned calories are
\* round(protein x 4 + fat x 9 + carbs x 4) of the returned macros, which
\* are the macros the loop ended with.
C13_AtwaterFallback ==
  [][(/\ exPc = "loop" /\ exPc' = "done"
      /\ nutrients.calories = Num(0)
      /\ \A f \in {"protein", "fat", "carbs"} : nutrients[f].t = "num"
      /\ \E f \in {"protein", "fat", "carbs"} : nutrients[f].v # 0)
     => /\ \A f \in {"protein", "fat", "carbs"} : nutrients'[f] = nutrients[f]
        /\ nutrients'.calories.t = "num"
        /\ LET kcal == nutrients'.protein.v * 4 + nutrients'.fat.v * 9 + nutrients'.carbs.v * 4
           IN  nutrients'.calories.v = ((kcal + 50) \div 100) * 100]_vars

\* protein 20 and fat 10 without an energy observation: 170 calories
C13_Witness ==
  /\ exPc = "done"
  /\ foodData.fn = "array" /\ Len(foodData.items) = 2
  /\ \A k \in 1..2 : ~foodData.items[k].isNull /\ AnyId(foodData.items[k]) \in {203, 204}
  /\ nutrients = [calories |-> Num(17000), protein |-> Num(2000), fat |-> Num(1000),
                  carbs |-> Num(0)]

\* C14: for a record whose foodNutrients is missing, null or not an array
\* extractNutrients returns the all-zero profile and does not throw.
C14_MissingListGivesZeros ==
  (foodData.t = "object" /\ foodData.fn # "array") =>
    /\ exPc \in {"call", "done"}
    /\ nutrients = ZeroProfile

\* a record whose foodNutrients is a truthy non-array has been extracted
C14_Witness ==
  /\ exPc = "done"
  /\ foodData.t = "object" /\ foodData.fn = "other"
  /\ nutrients = ZeroProfile

\* ------------------------------------------------------------------------
\* Properties of the daily series
\* ------------------------------------------------------------------------
\* C5: the loaded series has exactly one summary per calendar day of the
\* requested range: N records for a period of N days, the dates running
\* from the requested start date to the requested end date, and zero
\* totals with entryCount 0 on each day without entries.
C5_OneSummaryPerDay ==
  trPc = "loaded" =>
    /\ Len(summaryData) = dateRange
    /\ Len(summaryData) = formatDate(endDate, tz) - formatDate(startDate, tz) + 1
    /\ \A k \in 1..Len(summaryData) :
         /\ summaryData[k].date = formatDate(startDate, tz) + k - 1
         /\ (\A r \in 1..Len(entries) :
               ~(entries[r].userId = uid /\ entries[r].date = summaryData[k].date))
            => summaryData[k] = ZeroDay(summaryData[k].date)

\* ------------------------------------------------------------------------
\* Properties of the rendered trends
\* ------------------------------------------------------------------------
DatesAscending(rows) == \A k \in 1..(Len(rows) - 1) : rows[k].date <= rows[k + 1].date

DatesDescending(rows) == \A k \in 1..(Len(rows) - 1) : rows[k].date >= rows[k + 1].date

\* C28: once a period is loaded every render, re-renders after toggling
\* the chart included, shows the bars in ascending date order and the table
\* in descending date order.
C28_ChartAscendingTableDescending ==
  trPc = "rendered" => DatesAscending(chartBars) /\ DatesDescending(tableRows)

\* C29: the status the colour of a day's calories bar stands for (red
\* over, green on-track, yellow under) is the status the classifier gives
\* the day's total as a percentage of the goal: under below 80, on-track
\* from 80 to 110, over above 110.
C29_BarStatusMatchesClassifier ==
  (trPc = "rendered" /\ chartType = "calories") =>
    \A k \in 1..Len(chartBars) :
      chartBars[k].totalCalories > 0 =>
        chartBars[k].color
          = getStatusColor(RoundDiv(chartBars[k].totalCalories * 100, goalProp))

\* ------------------------------------------------------------------------
\* Properties of the quantity scaler in EntryForm
\* ------------------------------------------------------------------------
\* an edit of the quantity while a USDA food stays selected
QuantityEdit ==
  /\ selectedFood.type = "usda"
  /\ selectedFood' = selectedFood
  /\ quantity' # quantity

\* x per 100 g for the weight written in q, to one decimal
PerWeight(x, q) ==
  LET g == gramsQuantity(weightMatch(q))
  IN  RoundDiv(x * g.num, 1000 * g.den) * 10

\* C6: while a USDA food stays selected, every edit of the quantity leaves
\* on screen the food's original per-100 g values scaled by the weight of
\* the new quantity, or the values as they were when the new quantity has
\* no weight token; scalings never compound.
C6_ScaledFromBase ==
  [][QuantityEdit =>
       IF weightMatch(quantity').found
       THEN \A f \in Fields :
              Shown'[f] = Num(PerWeight(selectedFood.baseNutrition[f], quantity'))
       ELSE Shown' = Shown]_vars

\* a second weight has been typed over a first one: 50 g of bread
C6_Witness ==
  /\ selectedFood.type = "usda"
  /\ selectedFood.name = "bread"
  /\ quantity = <<"5", "0", "g">>
  /\ Shown = [calories |-> Num(4750), protein |-> Num(30), fat |-> Num(20), carbs |-> Num(1250)]

\* C7: the scaled calories are rounded to an integer and the scaled
\* protein, fat and carbs to one decimal place: after a weight-bearing edit
\* of the quantity the screen shows what adjustNutrients gives for the base.
C7_CaloriesInteger ==
  [][(QuantityEdit /\ weightMatch(quantity').found) =>
       Shown' = AsShown(adjustNutrients(selectedFood.baseNutrition,
                                        gramsQuantity(weightMatch(quantity'))))]_vars

\* a weight-unit token: a number (its last character a digit, or the point
\* after a digit), optional whitespace, then g, kg or mg ending at a word
\* boundary; the text is compared in lower case as the form compares it
HasWeightToken(q) ==
  LET s == toLowerCase(q)
  IN  \E a \in 1..Len(s), u \in 1..Len(s) :
        /\ a < u
        /\ IsDigit(s[a]) \/ (s[a] = "." /\ a > 1 /\ IsDigit(s[a - 1]))
        /\ \A k \in (a + 1)..(u - 1) : IsSpace(s[k])
        /\ \/ s[u] = "g" /\ (u = Len(s) \/ ~IsWordChar(s[u + 1]))
           \/ /\ u + 1 <= Len(s)
              /\ s[u] \in {"k", "m"}
              /\ s[u + 1] = "g"
              /\ (u + 1 = Len(s) \/ ~IsWordChar(s[u + 2]))

\* C15: for every quantity without a weight-unit token ('1 slice',
\* '2 cups', the empty text) scaling returns the profile it was given: for
\* the selected food the scaled base profile is the base profile, and a
\* quantity edit without a token leaves the four fields as they are.
C15_NoWeightTokenIdentity ==
  /\ \A q \in QuantityInputs :
        ~HasWeightToken(q) =>
          /\ getAdjustedNutrition(selectedFood, selectedFood.baseNutrition, q)
               = selectedFood.baseNutrition
          /\ QuantityChangeShown(selectedFood, q, ShownNumbers) = ShownNumbers
  /\ HasWeightToken(quantity) = weightMatch(quantity).found

C15_Witness ==
  /\ selectedFood.type = "usda"
  /\ quantity = <<"2", " ", "c", "u", "p", "s">>
  /\ ~HasWeightToken(quantity)
  /\ Shown = AsShown(selectedFood.baseNutrition)

\* C24: when a USDA food is selected while a weight-bearing quantity is
\* already entered, the four fields are set to the food's per-100 g values
\* scaled to that quantity, whatever was or was not selected before.
C24_SelectScalesToQuantity ==
  [][(selectedFood'.type = "usda" /\ selectedFood' # selectedFood
        /\ weightMatch(quantity).found)
       => \A f \in Fields :
            Shown'[f] = Num(PerWeight(selectedFood'.baseNutrition[f], quantity))]_vars

\* ------------------------------------------------------------------------
\* Properties of the goal status
\* ------------------------------------------------------------------------
\* C8: the status shown for a percentage p is under exactly when p < 80,
\* on-track exactly when 80 <= p <= 110 and over exactly when p > 110, in
\* the badge and in the colour of the progress bar alike.
C8_StatusThresholds ==
  LET p == analysis.percentage
  IN  /\ (analysis.badge = "under") <=> (p < 80)
      /\ (analysis.badge = "on-track") <=> (80 <= p /\ p <= 110)
      /\ (analysis.badge = "over") <=> (p > 110)
      /\ (analysis.color = "#ffc107") <=> (p < 80)
      /\ (analysis.color = "#28a745") <=> (80 <= p /\ p <= 110)
      /\ (analysis.color = "#dc3545") <=> (p > 110)

\* a day at exactly 110 percent is shown on track
C8_Witness ==
  /\ appEntries # <<>>
  /\ analysis.percentage = 110
  /\ analysis.badge = "on-track"
  /\ analysis.color = "#28a745"

\* C9: the percentage Analysis shows is round(total / goal x 100) for the
\* calorie goal App holds, after a load and after a save of another goal.
C9_PercentageOfCurrentGoal ==
  analysis.percentage = RoundDiv(analysis.total * 100, calorieGoal)

\* C21: GET /api/goal/calories for a user who has no goal set (no row, or a
\* row without a goal) answers with a body whose calorieGoal is 2000.
C21_UnsetGoalIs2000 ==
  userRow \in {Undef, Null} =>
    LET body == getGoalCalories(userRow)
    IN  body.isObject /\ body.calorieGoal = Num(200000)

\* ------------------------------------------------------------------------
\* Properties of the entry store
\* ------------------------------------------------------------------------
\* the user who created the entry of the given id, "" if none did
OwnerOf(rows, id) ==
  IF \E k \in 1..Len(rows) : rows[k].id = id
  THEN (CHOOSE r \in {rows[k] : k \in 1..Len(rows)} : r.id = id).userId
  ELSE ""

\* C22: a PUT or DELETE /api/entries/:id by a user who does not own the
\* entry, or for an id that does not exist, is rejected and leaves every
\* stored entry as it was; and no request changes the owner of an entry.
C22_OnlyOwnerChanges ==
  [][/\ (entReq'.op \in {"put", "delete"} /\ OwnerOf(entries, entReq'.id) # entReq'.uid)
         => (entReq'.status = 403 /\ entries' = entries)
     /\ \A id \in EntryIds :
          OwnerOf(entries', id) # "" => OwnerOf(entries, id) \in {"", OwnerOf(entries', id)}]_vars

C22_Witness ==
  /\ entReq.op \in {"put", "delete"}
  /\ entReq.status = 403
  /\ OwnerOf(entries, entReq.id) \notin {"", entReq.uid}

\* C23: from a selected date that is not after today no sequence of
\* Previous, Next and Go-to-Today clicks selects a date after today; Next on
\* today changes nothing, Next on an earlier date advances exactly one day
\* and Previous moves back exactly one day.
C23_DayStepsWithinToday ==
  [][/\ selectedDate' <= dsToday'
     /\ dsLast' = "next" =>
          selectedDate' = IF selectedDate = dsToday THEN selectedDate ELSE selectedDate + 1
     /\ dsLast' = "previous" => selectedDate' = selectedDate - 1]_vars

\* ------------------------------------------------------------------------
\* Properties of the food lookup
\* ------------------------------------------------------------------------
\* C25: the cache is transparent: a call answered from the cache returns
\* the same result, in shape ({error, nutrients}) and in nutrient values,
\* as the successful call that populated the cache for that id.
C25_CacheTransparent ==
  lookup.hit => lookup.response = populatedBy[lookup.fdcId]

\* ------------------------------------------------------------------------
\* Properties of the food history
\* ------------------------------------------------------------------------
FoodRecords(n) == {k \in 1..Len(foods) : foods[k].name = n}

\* C26: however concurrent entry creations of one user interleave, once
\* they have completed the food history holds exactly one record for each
\* name that was logged and its usageCount is the number of entries created
\* with that name.
C26_OneRecordPerName ==
  (\A r \in Requests : reqs[r].pc \in {"idle", "done"}) =>
    \A n \in FoodNames :
      IF logged[n] = 0 THEN FoodRecords(n) = {}
      ELSE /\ Cardinality(FoodRecords(n)) = 1
           /\ \A k \in FoodRecords(n) : foods[k].usageCount = logged[n]

\* ------------------------------------------------------------------------
\* Properties of the user document
\* ------------------------------------------------------------------------
\* C27: however concurrent ensureUserExists calls and goal updates of one
\* user interleave, ensureUserExists never overwrites a stored calorieGoal:
\* the write of an ensureUserExists leaves the calorieGoal of a document
\* that exists as it is.
C27_EnsureKeepsGoal ==
  [][(userDoc.exists
        /\ \E r \in Requests : authReqs[r].pc = "read" /\ authReqs'[r].pc # "read")
       => userDoc'.calorieGoal = userDoc.calorieGoal]_vars

\* ------------------------------------------------------------------------
\* Properties of the model loader
\* ------------------------------------------------------------------------
Pending == {id \in 1..Len(loads) : loads[id] = "pending"}

\* C30: however concurrent recognizeFood/loadModel calls interleave (and
\* clearModelCache is not called), at most one load is in flight; every
\* caller that arrived while it was in flight awaits that load, and every
\* caller served after it succeeded holds the model it made; after a failed
\* load the loader is reset, so that a later call starts a new load.
C30_SingleLoadShared ==
  clears = 0 =>
    /\ Cardinality(Pending) <= 1
    /\ isLoading <=> Pending # {}
    /\ \A c \in Callers :
         /\ callers[c].pc = "waiting" => (callers[c].promise \in Pending
                                            /\ callers[c].promise = loadPromise)
         /\ callers[c].pc = "got" => (model # 0 /\ callers[c].value = model)
    /\ (model = 0 /\ Pending = {}) => (~isLoading /\ loadPromise = 0)
    /\ Cardinality({id \in 1..Len(loads) : loads[id] = "resolved"}) <= 1

\* a load failed, a later load succeeded, and both callers hold its model
C30_Witness ==
  /\ clears = 0
  /\ \E id \in 1..Len(loads) : loads[id] = "rejected"
  /\ model # 0
  /\ \A c \in Callers : callers[c].pc = "got" /\ callers[c].value = model

\* C20: a goal update is accepted only if the new goal is a positive
\* number, so that whatever requests were made a stored goal is never <= 0.
C20_StoredGoalPositive == userRow.t = "num" => userRow.v > 0

\* ------------------------------------------------------------------------
\* Properties of the daily aggregation
\* ------------------------------------------------------------------------
\* a step in which GET /api/summary answers from the stored entries
SummaryStep == aggPc' = "summary" /\ entries' = entries

TotalFields == {"totalCalories", "totalProtein", "totalFat", "totalCarbs", "entryCount"}

\* C16: the summaries returned for a date range are in strictly descending
\* order of date: most recent first, no date twice.
C16_SummaryDescending ==
  [][SummaryStep =>
       \A k \in 1..(Len(sumResp') - 1) : sumResp'[k].date > sumResp'[k + 1].date]_vars

\* two days were logged oldest first and are returned newest first
C16_Witness ==
  /\ aggPc = "summary"
  /\ Len(entries) = 2 /\ entries[1].date = Today - 1 /\ entries[2].date = Today
  /\ Len(sumResp) = 2 /\ sumResp[1].date = Today /\ sumResp[2].date = Today - 1

\* the rows of a sequence at the indices K, in their order
RECURSIVE SelectRows(_, _, _)
SelectRows(rows, K, k) ==
  IF k > Len(rows) THEN <<>>
  ELSE (IF k \in K THEN <<rows[k]>> ELSE <<>>) \o SelectRows(rows, K, k + 1)

\* the value of a field on a date in a list of summaries (0 when absent)
OnDate(summary, d, fld) ==
  LET P == {k \in 1..Len(summary) : summary[k].date = d}
  IN  IF P = {} THEN 0 ELSE summary[CHOOSE k \in P : TRUE][fld]

SummaryDates(summary) == {summary[k].date : k \in 1..Len(summary)}

\* C17: aggregation is additive: for every split of the stored entries in
\* two disjoint sets A and B, the summaries of A and of B for the requested
\* owner and range, added per date and per field, are the summary of all
\* entries (same dates, same totals and entryCount on each date).  Each
\* split is taken once: B is the set that holds the first entry.
C17_AggregationAdditive ==
  aggPc = "summary" =>
    LET r == sumReq
        all == summaryOf(r.backend, entries, r.uid, r.startDate, r.endDate)
    IN  \A A \in SUBSET (2..Len(entries)) :
          LET B == (1..Len(entries)) \ A
              sumA == summaryOf(r.backend, SelectRows(entries, A, 1), r.uid, r.startDate, r.endDate)
              sumB == summaryOf(r.backend, SelectRows(entries, B, 1), r.uid, r.startDate, r.endDate)
          IN  /\ SummaryDates(all) = SummaryDates(sumA) \cup SummaryDates(sumB)
              /\ \A d \in SummaryDates(all), fld \in TotalFields :
                   OnDate(all, d, fld) = OnDate(sumA, d, fld) + OnDate(sumB, d, fld)

\* two entries of one day are summed in one summary
C17_Witness ==
  /\ aggPc = "summary"
  /\ Len(entries) = 2 /\ entries[1].date = entries[2].date
  /\ entries[1].userId = sumReq.uid /\ entries[2].userId = sumReq.uid
  /\ Len(sumResp) = 1 /\ sumResp[1].entryCount = 2
  /\ sumResp[1].totalCalories = entries[1].calories + entries[2].calories

\* the sum of a field over the owner's rows of a date, row by row
RECURSIVE OwnTotal(_, _, _, _, _)
OwnTotal(rows, u, d, fld, k) ==
  IF k > Len(rows) THEN 0
  ELSE (IF rows[k].userId = u /\ rows[k].date = d THEN rows[k][fld] ELSE 0)
       + OwnTotal(rows, u, d, fld, k + 1)

OwnCount(rows, u, d) == Cardinality({k \in 1..Len(rows) : rows[k].userId = u /\ rows[k].date = d})

C19_DaysHandedToRecommendation ==
  aggPc = "ai" => aiTotals.days = aiTotals.endDate - aiTotals.startDate + 1

====
